---- MODULE Spec2Model ----
(***************************************************************************)
(* The retrieval-and-confidence-gating pipeline of the Devfolio support    *)
(* bot: query_rag_system and evaluate_confidence of telegram_bot_rag.py    *)
(* and discord_bot_rag.py, and retrieve_for_queries of multi_query_rag.py. *)
(*                                                                         *)
(* Conventions.                                                            *)
(*  - A Python str is a sequence of symbols.  A symbol is a one-character  *)
(*    string ("a", " ", "\n"), or, for the fixed text of an f-string       *)
(*    template, one upper-case token that stands for that (non-empty)      *)
(*    literal ("ORGANIZER_USERNAME", "GUIDE_LINK", ...).                   *)
(*  - A relevance score is an integer number of hundredths (0.65 = 65).    *)
(*  - The Document Store and the Language Model are the environment: each  *)
(*    call returns any value of a bounded set, or raises.                  *)
(***************************************************************************)
EXTENDS Integers, Sequences, FiniteSets, TLC

(***************************************************************************)
(* Python str operations, on sequences of symbols                          *)
(***************************************************************************)

Whitespace == {" ", "\n", "\t"}

\* the character U+2022, the bullet of "line.startswith(BULLET)"
BULLET == "BULLET"

Digits == {"0", "1", "2", "3", "4", "5", "6", "7", "8", "9"}

\* s[i:] of Python, with i counted from 1
DropFirst(s, n) == SubSeq(s, n + 1, Len(s))

RECURSIVE LStripSet(_, _)
\* str.lstrip(chars): drop leading symbols that are in cs
LStripSet(s, cs) ==
    IF s # <<>> /\ Head(s) \in cs THEN LStripSet(Tail(s), cs) ELSE s

RECURSIVE RStripSet(_, _)
\* str.rstrip(chars)
RStripSet(s, cs) ==
    IF s # <<>> /\ s[Len(s)] \in cs THEN RStripSet(SubSeq(s, 1, Len(s) - 1), cs) ELSE s

\* str.strip(): leading and trailing whitespace removed
Strip(s) == RStripSet(LStripSet(s, Whitespace), Whitespace)

\* s.startswith(p)
StartsWith(s, p) == Len(s) >= Len(p) /\ SubSeq(s, 1, Len(p)) = p

\* p in s (substring)
Contains(s, p) == \E i \in 1..(Len(s) - Len(p) + 1) : SubSeq(s, i, i + Len(p) - 1) = p

RECURSIVE ReplaceAll(_, _, _)
\* s.replace(old, new), old non-empty: every occurrence, left to right
ReplaceAll(s, old, new) ==
    IF s = <<>> THEN <<>>
    ELSE IF StartsWith(s, old) THEN new \o ReplaceAll(DropFirst(s, Len(old)), old, new)
    ELSE <<Head(s)>> \o ReplaceAll(Tail(s), old, new)

RECURSIVE SplitOn(_, _)
\* s.split(c) for a one-symbol separator: always at least one piece
SplitOn(s, c) ==
    IF \A i \in 1..Len(s) : s[i] # c THEN <<s>>
    ELSE LET i == CHOOSE k \in 1..Len(s) : s[k] = c /\ \A j \in 1..(k - 1) : s[j] # c
         IN  <<SubSeq(s, 1, i - 1)>> \o SplitOn(DropFirst(s, i), c)

\* s.split(c, 1)[-1]: what follows the first c, or s itself when it has no c
AfterFirst(s, c) ==
    IF \A i \in 1..Len(s) : s[i] # c THEN s
    ELSE LET i == CHOOSE k \in 1..Len(s) : s[k] = c /\ \A j \in 1..(k - 1) : s[j] # c
         IN  DropFirst(s, i)

\* s.split(c)[-1]: what follows the last c, or s itself
AfterLast(s, c) == LET parts == SplitOn(s, c) IN parts[Len(parts)]

\* x in list
InList(x, list) == \E i \in 1..Len(list) : list[i] = x

RECURSIVE JoinWith(_, _)
\* sep.join(list)
JoinWith(list, sep) ==
    IF list = <<>> THEN <<>>
    ELSE IF Len(list) = 1 THEN list[1]
    ELSE list[1] \o sep \o JoinWith(Tail(list), sep)

RECURSIVE SelectSeqOrder(_, _)
\* list(dict.fromkeys(list)): duplicates removed, first-seen order kept
SelectSeqOrder(list, seen) ==
    IF list = <<>> THEN <<>>
    ELSE IF Head(list) \in seen THEN SelectSeqOrder(Tail(list), seen)
    ELSE <<Head(list)>> \o SelectSeqOrder(Tail(list), seen \cup {Head(list)})

UniqueInOrder(list) == SelectSeqOrder(list, {})

\* list[:n]
Take(list, n) == SubSeq(list, 1, IF Len(list) < n THEN Len(list) ELSE n)


(***************************************************************************)
(* Program constants                                                       *)
(***************************************************************************)

\* high_confidence_threshold = 0.65
HIGH_CONFIDENCE_THRESHOLD == 65

\* "score > 0.4" of the merge loop
MERGE_FLOOR == 40

\* "score > 0.5" of good_results
GOOD_FLOOR == 50

\* len("\n\n---\n\n"), the separator of context_text
SEPARATOR_LENGTH == 7

\* doc.page_content[:100]
PREFIX_LENGTH == 100

\* "if len(queries) >= 3: break"
MAX_GENERATED_QUERIES == 3

Variants == {"telegram", "discord"}

\* MIN_CONTEXT_LENGTH of each bot
\* faulty variant: the Telegram minimum used in both bots
MIN_CONTEXT_LENGTH_Telegram(v) == 100

MIN_CONTEXT_LENGTH(v) == IF v = "telegram" THEN 100 ELSE 200

\* good_results[:8] (Telegram), good_results[:4] (Discord)
MAX_RESULTS(v) == IF v = "telegram" THEN 8 ELSE 4

\* k of the probe: similarity_search_with_relevance_scores(query_text, k=6 | k=4)
PROBE_K(v) == IF v = "telegram" THEN 6 ELSE 4

\* k of the per-query search: k=4 (Telegram), k=3 (Discord)
SEARCH_K(v) == IF v = "telegram" THEN 4 ELSE 3

\* unique_sources[:8] (Telegram), unique_sources[:3] (Discord)
MAX_SOURCES(v) == IF v = "telegram" THEN 8 ELSE 3

(***************************************************************************)
(* Bounds of the model                                                     *)
(***************************************************************************)

\* the longest result list the Document Store returns to one call
MaxHits == 2

(***************************************************************************)
(* The Document Store's chunks.  A chunk is a document number; its         *)
(* page_content is known by its length and by its first 100 characters,    *)
(* its metadata by the "source" path.                                      *)
(***************************************************************************)

\* the chunks the searches of a request return
Docs == {1, 2, 3, 4}

\* len(doc.page_content)
PageContentLen(d) ==
    CASE d = 1 -> 40
      [] d = 2 -> 100
      [] d = 3 -> 260
      [] d = 4 -> 93
      [] OTHER -> 150

\* doc.page_content[:100], named by a number: chunks 2 and 3 are different
\* chunks whose first 100 characters are the same
PageContentPrefix(d) == IF d = 3 THEN 2 ELSE d

\* hash(doc.page_content[:100]); equal prefixes hash alike, and the 64-bit
\* hash is taken to be free of collisions on the store's prefixes
ContentHash(d) == PageContentPrefix(d)

\* doc.metadata.get("source", ""): chunks 2 and 3 come from one file, chunk 4
\* has no source
MetadataSource(d) ==
    CASE d = 1 -> <<"d", "a", "t", "a", "/", "a", "-", "b", ".", "m", "d">>
      [] d = 2 -> <<"d", "a", "t", "a", "/", "g", "/", "c", ".", "m", "d", "x">>
      [] d = 3 -> <<"d", "a", "t", "a", "/", "g", "/", "c", ".", "m", "d", "x">>
      [] d = 4 -> <<>>
      [] OTHER -> <<"d", "a", "t", "a", "/", "b", ".", "m", "d">>

\* the relevance scores the store hands out: each threshold itself, and a value
\* above the highest
Scores == {40, 50, 65, 95}

\* one (doc, score) pair of a result list
Hits == [doc : Docs, score : Scores]

(***************************************************************************)
(* The steps of query_rag_system that compute, as operators                *)
(***************************************************************************)

\* faulty variant: a score of exactly 0.65 passes the probe
HasHighConfidence_AtLeast(initial) ==
    \E i \in 1..Len(initial) : initial[i].score >= HIGH_CONFIDENCE_THRESHOLD

\* has_high_confidence = any(score > high_confidence_threshold for _, score in initial_results)
HasHighConfidence(initial) ==
    \E i \in 1..Len(initial) : initial[i].score > HIGH_CONFIDENCE_THRESHOLD

\* One line of the expansion output: the query it yields, or <<>> for none.
\*   line = line.strip()
\*   if line and (line[0].isdigit() or line.startswith(BULLET) or line.startswith('-')):
\*       query = line.split('.', 1)[-1].strip().lstrip(BULLET + '-').strip()
\*       if query and len(query) > 3: queries.append(query)
IsListLine(line) ==
    LET l == Strip(line) IN l # <<>> /\ (l[1] \in Digits \/ l[1] = BULLET \/ l[1] = "-")

ParseLine(line) ==
    LET l == Strip(line)
        query == Strip(LStripSet(Strip(AfterFirst(l, ".")), {BULLET, "-"}))
    IN  IF IsListLine(line) /\ query # <<>> /\ Len(query) > 3 THEN query ELSE <<>>

RECURSIVE ParseLines(_, _, _)
\* The loop over the lines: queries so far, lines left, and the cap on the
\* number of queries ("if len(queries) >= 3: break", tested after each line
\* that starts like a list item; cap = 0 for the loop without the break).
ParseLines(queries, lines, cap) ==
    IF lines = <<>> THEN queries
    ELSE LET q == ParseLine(Head(lines))
             qs == IF q # <<>> THEN Append(queries, q) ELSE queries
         IN  IF IsListLine(Head(lines)) /\ cap > 0 /\ Len(qs) >= cap THEN qs
             ELSE ParseLines(qs, Tail(lines), cap)

\* faulty variant: the loop over the lines has no break
ParseQueries_NoBreak(response, cap) ==
    ParseLines(<<>>, SplitOn(Strip(response), "\n"), 0)

\* lines = response.strip().split('\n'), then the loop
ParseQueries(response, cap) == ParseLines(<<>>, SplitOn(Strip(response), "\n"), cap)

\* faulty variant: the original query is not inserted
WithOriginal_NotInserted(queries, original) == queries

\* if query_text not in queries: queries.insert(0, query_text)
WithOriginal(queries, original) ==
    IF InList(original, queries) THEN queries ELSE <<original>> \o queries

\* faulty variant: seen_content is not consulted
MergeHit_NoSeen(merged, hit) ==
    IF hit.score > MERGE_FLOOR
    THEN [all |-> Append(merged.all, hit), seen |-> merged.seen \cup {ContentHash(hit.doc)}]
    ELSE merged

\* faulty variant: the hash is added to seen_content before the score is tested
MergeHit_MarkFirst(merged, hit) ==
    IF ContentHash(hit.doc) \notin merged.seen /\ hit.score > MERGE_FLOOR
    THEN [all |-> Append(merged.all, hit), seen |-> merged.seen \cup {ContentHash(hit.doc)}]
    ELSE [all |-> merged.all, seen |-> merged.seen \cup {ContentHash(hit.doc)}]

\* The body of "for doc, score in results", on the pair (all_results, seen_content):
\*   if content_hash not in seen_content and score > 0.4:
\*       seen_content.add(content_hash); all_results.append((doc, score))
MergeHit(merged, hit) ==
    IF ContentHash(hit.doc) \notin merged.seen /\ hit.score > MERGE_FLOOR
    THEN [all |-> Append(merged.all, hit), seen |-> merged.seen \cup {ContentHash(hit.doc)}]
    ELSE merged

RECURSIVE InsertByScore(_, _)
\* a hit put after every hit of the list whose score is not lower
InsertByScore(sorted, hit) ==
    IF sorted = <<>> THEN <<hit>>
    ELSE IF Head(sorted).score >= hit.score
         THEN <<Head(sorted)>> \o InsertByScore(Tail(sorted), hit)
         ELSE <<hit>> \o sorted

RECURSIVE SortByScore(_)
\* all_results.sort(key=lambda x: x[1], reverse=True): by score, highest
\* first; list.sort is stable, also with reverse=True
SortByScore(list) ==
    IF list = <<>> THEN <<>>
    ELSE InsertByScore(SortByScore(SubSeq(list, 1, Len(list) - 1)), list[Len(list)])

\* faulty variant: a score of exactly 0.5 is good
IsGood_AtLeast(hit) == hit.score >= GOOD_FLOOR

IsGood(hit) == hit.score > GOOD_FLOOR

\* good_results = [(doc, score) for doc, score in all_results if score > 0.5]
GoodResults(sorted) == SelectSeq(sorted, IsGood)

\* results = good_results[:8] (Telegram), good_results[:4] (Discord)
RetainedResults(all, v) == Take(GoodResults(SortByScore(all)), MAX_RESULTS(v))

RECURSIVE SumLen(_)
SumLen(list) == IF list = <<>> THEN 0 ELSE PageContentLen(Head(list).doc) + SumLen(Tail(list))

\* len(context_text), context_text = "\n\n---\n\n".join(doc.page_content for doc, _ in results)
ContextLength(list) ==
    IF list = <<>> THEN 0 ELSE SumLen(list) + SEPARATOR_LENGTH * (Len(list) - 1)

\* len(context_text) < MIN_CONTEXT_LENGTH
ContextTooShort(list, v) == ContextLength(list) < MIN_CONTEXT_LENGTH(v)

(***************************************************************************)
(* evaluate_confidence                                                     *)
(***************************************************************************)

Lower ==
    <<"a", "b", "c", "d", "e", "f", "g", "h", "i", "j", "k", "l",
      "m", "n", "o", "p", "q", "r", "s", "t", "u", "v", "w", "x", "y", "z">>

Upper ==
    <<"A", "B", "C", "D", "E", "F", "G", "H", "I", "J", "K", "L",
      "M", "N", "O", "P", "Q", "R", "S", "T", "U", "V", "W", "X", "Y", "Z">>

\* str.upper() of one character
UpperChar(c) ==
    IF \E i \in 1..Len(Lower) : Lower[i] = c
    THEN Upper[CHOOSE i \in 1..Len(Lower) : Lower[i] = c]
    ELSE c

\* str.lower() of one character
LowerChar(c) ==
    IF \E i \in 1..Len(Upper) : Upper[i] = c
    THEN Lower[CHOOSE i \in 1..Len(Upper) : Upper[i] = c]
    ELSE c

\* str.upper()
ToUpper(s) == [i \in 1..Len(s) |-> UpperChar(s[i])]

HIGH == <<"H", "I", "G", "H">>

MEDIUM == <<"M", "E", "D", "I", "U", "M">>

LOW == <<"L", "O", "W">>

ConfidenceLevels == {HIGH, MEDIUM, LOW}

\* the exceptions a call can raise, by their messages
Exceptions == {<<"t", "i", "m", "e", "d", " ", "o", "u", "t">>, <<"4", "2", "9">>}

\* What the Language Model call of evaluate_confidence does: it returns a
\* text, or it raises.
Raises == [raised : {TRUE}, exception : Exceptions]

Returns(values) == [raised : {FALSE}, content : values]

\* faulty variant: the level is looked for inside the output
EvaluateConfidence_Contains(reply) ==
    IF reply.raised THEN LOW
    ELSE LET confidence_level == ToUpper(Strip(reply.content))
         IN  IF Contains(confidence_level, HIGH) THEN HIGH
             ELSE IF Contains(confidence_level, MEDIUM) THEN MEDIUM
             ELSE LOW

\* evaluate_confidence, given what model.invoke does:
\*   confidence_level = model.invoke(prompt).content.strip().upper()
\*   return confidence_level if confidence_level in ['HIGH', 'MEDIUM', 'LOW'] else 'LOW'
\* except Exception: return 'LOW'
EvaluateConfidence(reply) ==
    IF reply.raised THEN LOW
    ELSE LET confidence_level == ToUpper(Strip(reply.content))
         IN  IF confidence_level \in ConfidenceLevels THEN confidence_level ELSE LOW

(***************************************************************************)
(* The replies query_rag_system returns.  An upper-case token stands for   *)
(* the fixed text of the f-string at that place.                           *)
(***************************************************************************)

\* ORGANIZER_USERNAME, as it appears in a reply ("@vee19tel", "<@845015423207473152>")
ORGANIZER_USERNAME == "ORGANIZER_USERNAME"

\* the sentence that sends the user to the public groups
PUBLIC_GROUPS == "PUBLIC_GROUPS"

\* "... refer to this guide: https://guide.devfolio.co/"
GUIDE_LINK == "GUIDE_LINK"

\* base_url = "https://guide.devfolio.co/"
BASE_URL == "BASE_URL"

\* faulty variant: the organizer is named in a private chat too
EscalationTail_Organizer(v, private, ask) ==
    IF v = "telegram" THEN <<ORGANIZER_USERNAME, ask, GUIDE_LINK>>
    ELSE <<ORGANIZER_USERNAME, ask>>

\* what follows the opening sentence of an escalation: the public groups in a
\* private Telegram chat, the organizer elsewhere; the Discord replies carry
\* no guide link
EscalationTail(v, private, ask) ==
    IF v = "telegram"
    THEN IF private THEN <<PUBLIC_GROUPS, GUIDE_LINK>>
         ELSE <<ORGANIZER_USERNAME, ask, GUIDE_LINK>>
    ELSE <<ORGANIZER_USERNAME, ask>>

\* "I couldn't find relevant information for your question in the documentation."
NoMatchReply(v, private) ==
    <<"NO_RELEVANT_INFO">> \o EscalationTail(v, private, "COULD_YOU_HELP")

\* "I couldn't find good matches for your question in the documentation."
NoGoodResultsReply(v, private) ==
    <<"NO_GOOD_MATCHES">> \o EscalationTail(v, private, "COULD_YOU_HELP")

\* "I found limited information for your question."
ShortContextReply(v, private) ==
    <<"LIMITED_INFO">> \o EscalationTail(v, private, "NEEDS_HUMAN")

\* "I found some information but I'm not confident ..."; the Discord reply
\* quotes the question
LowConfidenceReply(v, private, question) ==
    <<"NOT_CONFIDENT">> \o EscalationTail(v, private, "COULD_YOU_HELP")
        \o (IF v = "discord" THEN <<"'">> \o question \o <<"'", "?">> ELSE <<>>)

\* "I don't have enough specific information to answer your question confidently."
UncertainReply(v, private, question) ==
    <<"NOT_ENOUGH_INFO">> \o EscalationTail(v, private, "COULD_YOU_HELP")
        \o (IF v = "discord" THEN <<"'">> \o question \o <<"'", "?">> ELSE <<>>)

\* faulty variant: the exception's message is put in the reply
ErrorReply_Leaks(v, private, e) ==
    IF v = "telegram" /\ private
    THEN <<"ERROR_APOLOGY", "TRY_LATER", PUBLIC_GROUPS>> \o e
    ELSE <<"ERROR_APOLOGY", ORGANIZER_USERNAME, "TECH_ISSUE">> \o e

\* except Exception as e: logger.error(...); return "Sorry, I encountered an
\* error while processing your question. ...": the reply, given the
\* exception caught
ErrorReply(v, private, e) ==
    IF v = "telegram" /\ private
    THEN <<"ERROR_APOLOGY", "TRY_LATER", PUBLIC_GROUPS>>
    ELSE <<"ERROR_APOLOGY", ORGANIZER_USERNAME, "TECH_ISSUE">>

UNCERTAIN == <<"U", "N", "C", "E", "R", "T", "A", "I", "N">>

PARTIAL_PREFIX == <<"P", "A", "R", "T", "I", "A", "L", ":">>

IsLetter(c) ==
    \E i \in 1..Len(Lower) : Lower[i] = c \/ Upper[i] = c

\* str.title(): a letter that follows no letter is upper-cased, any other
\* letter lower-cased
Title(s) ==
    [i \in 1..Len(s) |->
        IF i = 1 \/ ~IsLetter(s[i - 1]) THEN UpperChar(s[i]) ELSE LowerChar(s[i])]

\* the two suffix removals: .replace(".mdx", "").replace(".md", "")
DropExtensions(s) == ReplaceAll(ReplaceAll(s, <<".", "m", "d", "x">>, <<>>), <<".", "m", "d">>, <<>>)

\* url_path = source_path.replace("data/", "").replace(".mdx", "").replace(".md", "")
UrlPath(source_path) == DropExtensions(ReplaceAll(source_path, <<"d", "a", "t", "a", "/">>, <<>>))

\* full_url = base_url + url_path
FullUrl(source_path) == <<BASE_URL>> \o UrlPath(source_path)

\* file_name = source_path.split("/")[-1].replace(".mdx", "").replace(".md", "")
\* readable_title = file_name.replace("-", " ").title()
ReadableTitle(source_path) ==
    Title(ReplaceAll(DropExtensions(AfterLast(source_path, "/")), <<"-">>, <<" ">>))

\* f"BULLET [{readable_title}]({full_url})"
SourceLine(source_path) ==
    <<BULLET, " ", "[">> \o ReadableTitle(source_path) \o <<"]", "(">>
        \o FullUrl(source_path) \o <<")">>

RECURSIVE Sources(_)
\* the loop "for doc, _score in results": one line per chunk that has a source
Sources(list) ==
    IF list = <<>> THEN <<>>
    ELSE LET source_path == MetadataSource(Head(list).doc)
         IN  (IF source_path # <<>> THEN <<SourceLine(source_path)>> ELSE <<>>)
                 \o Sources(Tail(list))

\* unique_sources = list(dict.fromkeys(sources))
\* sources_text = "\n".join(unique_sources[:8])   ([:3] in the Discord bot)
SourcesText(list, v) ==
    JoinWith(Take(UniqueInOrder(Sources(list)), MAX_SOURCES(v)), <<"\n">>)

\* faulty variant: the banner is put before every partial answer
AnswerReply_BannerAlways(v, private, docs, question, level, text, list) ==
    IF Contains(text, UNCERTAIN) THEN UncertainReply(v, private, question)
    ELSE LET partial == StartsWith(text, PARTIAL_PREFIX)
             response_text ==
                 IF partial THEN Strip(ReplaceAll(text, PARTIAL_PREFIX, <<>>)) ELSE text
             confidence_prefix ==
                 IF partial THEN <<"PARTIAL_BANNER">> ELSE <<>>
             confidence_indicator ==
                 IF level # MEDIUM THEN <<>>
                 ELSE IF v = "telegram"
                      THEN IF private THEN <<"NEED_DETAILS", PUBLIC_GROUPS>>
                           ELSE <<"NEED_DETAILS", ORGANIZER_USERNAME, GUIDE_LINK>>
                      ELSE <<"NEED_DETAILS", ORGANIZER_USERNAME>>
         IN  IF v = "discord" /\ ~docs THEN confidence_prefix \o response_text
             ELSE confidence_prefix \o response_text \o <<"DOCS_HEADER">>
                      \o SourcesText(list, v) \o confidence_indicator

\* faulty variant: the output is compared with the sentinel, not searched
\* for it
AnswerReply_SentinelAlone(v, private, docs, question, level, text, list) ==
    IF text = UNCERTAIN THEN UncertainReply(v, private, question)
    ELSE LET partial == StartsWith(text, PARTIAL_PREFIX)
             response_text ==
                 IF partial THEN Strip(ReplaceAll(text, PARTIAL_PREFIX, <<>>)) ELSE text
             confidence_prefix ==
                 IF partial /\ level = MEDIUM THEN <<"PARTIAL_BANNER">> ELSE <<>>
             confidence_indicator ==
                 IF level # MEDIUM THEN <<>>
                 ELSE IF v = "telegram"
                      THEN IF private THEN <<"NEED_DETAILS", PUBLIC_GROUPS>>
                           ELSE <<"NEED_DETAILS", ORGANIZER_USERNAME, GUIDE_LINK>>
                      ELSE <<"NEED_DETAILS", ORGANIZER_USERNAME>>
         IN  IF v = "discord" /\ ~docs THEN confidence_prefix \o response_text
             ELSE confidence_prefix \o response_text \o <<"DOCS_HEADER">>
                      \o SourcesText(list, v) \o confidence_indicator

\* The reply built from the Language Model's answer, from the test for
\* UNCERTAIN to the final f-string.
AnswerReply(v, private, docs, question, level, text, list) ==
    IF Contains(text, UNCERTAIN) THEN UncertainReply(v, private, question)
    ELSE LET partial == StartsWith(text, PARTIAL_PREFIX)
             response_text ==
                 IF partial THEN Strip(ReplaceAll(text, PARTIAL_PREFIX, <<>>)) ELSE text
             confidence_prefix ==
                 IF partial /\ level = MEDIUM THEN <<"PARTIAL_BANNER">> ELSE <<>>
             confidence_indicator ==
                 IF level # MEDIUM THEN <<>>
                 ELSE IF v = "telegram"
                      THEN IF private THEN <<"NEED_DETAILS", PUBLIC_GROUPS>>
                           ELSE <<"NEED_DETAILS", ORGANIZER_USERNAME, GUIDE_LINK>>
                      ELSE <<"NEED_DETAILS", ORGANIZER_USERNAME>>
         IN  IF v = "discord" /\ ~docs THEN confidence_prefix \o response_text
             ELSE confidence_prefix \o response_text \o <<"DOCS_HEADER">>
                      \o SourcesText(list, v) \o confidence_indicator

(***************************************************************************)
(* What the environment can say                                            *)
(***************************************************************************)

\* the questions asked
Questions == {<<"a", "b", "c", "d">>, <<"h", "i">>}

\* the Language Model's answers to the query generation prompt
ExpansionOutputs ==
    { <<>>,
      <<"1", ".", " ", "w", "x", "y", "z", "\n", "2", ".", " ", "e", "f", "g", "h", "\n", "3", ".", " ", "i", "j", "k", "l", "\n", "4", ".", " ", "m", "n", "o", "p">>,
      <<"-", " ", "w", "x", "y", "z">>,
      <<"1", ".", " ", "a", "b", "c", "d", "\n", "2", ".", " ", "w", "x", "y", "z">>,
      <<"o", "k", "\n", "1", ".", " ", "w", "x", "y", "z", "\n", "2", ".", " ", "w", "x", "y", "z">> }

\* its answers to the confidence prompt
ConfidenceOutputs ==
    { <<"H", "I", "G", "H">>,
      <<" ", "m", "e", "d", "i", "u", "m", "\n">>,
      <<"L", "O", "W">>,
      <<"H", "I", "G", "H", ".">> }

\* its answers to the answer prompt
AnswerOutputs ==
    { <<>>,
      <<"o", "k">>,
      <<"U", "N", "C", "E", "R", "T", "A", "I", "N">>,
      <<"P", "A", "R", "T", "I", "A", "L", ":", " ", "o", "k">>,
      <<"P", "A", "R", "T", "I", "A", "L", ":">>,
      <<"P", "A", "R", "T", "I", "A", "L", ":", " ", "o", "k", " ",
        "P", "A", "R", "T", "I", "A", "L", ":", "x", "\n">>,
      <<"P", "A", "R", "T", "I", "A", "L", ":", " ",
        "U", "N", "C", "E", "R", "T", "A", "I", "N">>,
      <<"o", "k", " ", "U", "N", "C", "E", "R", "T", "A", "I", "N", ".">>,
      <<"u", "n", "c", "e", "r", "t", "a", "i", "n">> }

Min(a, b) == IF a < b THEN a ELSE b

\* the result lists the Document Store can return to a call with this k
ResultLists(k) == UNION {[1..n -> Hits] : n \in 0..Min(k, MaxHits)}

(***************************************************************************)
(* The state of one call of query_rag_system                               *)
(***************************************************************************)

VARIABLES
    variant,              \* which bot: "telegram" or "discord"
    query_text,           \* the parameter query_text
    is_private,           \* the parameter is_private (Telegram)
    use_docs,             \* the parameter use_docs (Discord)
    pc,                   \* the next external call, or "done" once returned
    initial_results,      \* the probe's result list, until it is last read
    has_high_confidence,  \* the local of that name
    queries,              \* the list queries
    qi,                   \* the index in queries of the loop "for query in queries"
    nhits,                \* the pairs of the current result list consumed so far
    all_results,          \* the list all_results
    seen_content,         \* the set seen_content
    results,              \* results = good_results[:N]
    confidence_level,     \* the local of that name, <<>> before it is set
    response,             \* the string returned, <<>> before the return
    outcome,              \* which return statement returned
    calls,                \* the external calls made so far, in order
    llm_contexts,         \* the contexts (result lists) formatted into a prompt so far
    llm_reply,            \* evaluate_confidence alone: what model.invoke does
    db,                   \* retrieve_for_queries alone: the result list of each query
    order,                \* the same queries in another order
    reordered_results,    \* what retrieve_for_queries returns for that order
    max_docs,             \* the command line: args.max_docs
    response_text,        \* the Language Model's output to the answer prompt
    error,                \* the exception the except clause caught (<<>>: none)
    WEBHOOK_URL,          \* webhook_logger.WEBHOOK_URL ("": not set)
    handlers,             \* the message handlers: the coroutine of each update
    running,              \* the coroutine the event loop's thread is executing (0: none)
    invocations,          \* concurrent calls of query_rag_system: the locals of each
    heard,                \* what the Document Store and the Language Model did in each
    cited_results,        \* the citations alone: the source (and source_query) of each result
    full_urls,            \* full_url of each result that has a source
    unique_sources        \* the list unique_sources, as it is rendered

vars ==
    <<variant, query_text, is_private, use_docs, pc, initial_results,
      has_high_confidence, queries, qi, nhits, all_results, seen_content, results,
      confidence_level, response, outcome, calls, llm_contexts, llm_reply, db,
      order, reordered_results, max_docs, response_text, error, WEBHOOK_URL,
      handlers, running, invocations, heard, cited_results, full_urls,
      unique_sources>>

NoReply == [raised |-> FALSE, content |-> <<>>]

\* the locals before the first statement of the function
Locals ==
    /\ initial_results = <<>>
    /\ has_high_confidence = FALSE
    /\ queries = <<>>
    /\ qi = 0
    /\ nhits = 0
    /\ all_results = <<>>
    /\ seen_content = {}
    /\ results = <<>>
    /\ confidence_level = <<>>
    /\ response = <<>>
    /\ outcome = "none"
    /\ calls = <<>>
    /\ llm_contexts = {}
    /\ response_text = <<>>
    /\ error = <<>>

\* no message handler and no concurrent call
NoAdapter ==
    /\ WEBHOOK_URL = <<>>
    /\ handlers = <<>>
    /\ running = 0
    /\ invocations = <<>>
    /\ heard = <<>>

adapter == <<WEBHOOK_URL, handlers, running, invocations, heard>>

\* no citation list in the making
NoCiting ==
    /\ cited_results = <<>>
    /\ full_urls = <<>>
    /\ unique_sources = <<>>

citing == <<cited_results, full_urls, unique_sources>>

\* the variables of the functions checked alone, when they are not
Unused ==
    /\ llm_reply = NoReply
    /\ db = <<>>
    /\ order = <<>>
    /\ reordered_results = <<>>
    /\ max_docs = 0
    /\ NoAdapter
    /\ NoCiting

\* A call query_rag_system(message_text, is_private=is_private) of the Telegram
\* handler, or query_rag_system(content, use_docs=True) of the Discord one.
Init ==
    /\ variant \in Variants
    /\ query_text \in Questions
    /\ is_private \in (IF variant = "telegram" THEN BOOLEAN ELSE {FALSE})
    /\ use_docs = TRUE
    /\ pc = "prepare"
    /\ Locals
    /\ Unused

\* a return statement: the function is over
Return(kind, text) ==
    /\ pc' = "done"
    /\ outcome' = kind
    /\ response' = text
    /\ UNCHANGED error

\* faulty variant: no except clause, the exception leaves the function
ReturnError_Escapes(e) ==
    /\ pc' = "raised"
    /\ error' = e
    /\ UNCHANGED <<outcome, response>>

\* except Exception as e: ... return the error reply
ReturnError(e) ==
    /\ pc' = "done"
    /\ outcome' = "error"
    /\ response' = ErrorReply(variant, is_private, e)
    /\ error' = e

params == <<variant, query_text, is_private, use_docs>>

unused == <<llm_reply, db, order, reordered_results, max_docs, adapter, citing>>

\* embedding_function = OpenAIEmbeddings(); db = Chroma(...): either may raise
PrepareDB ==
    /\ pc = "prepare"
    /\ calls' = Append(calls, "prepare_db")
    /\ \/ /\ pc' = "probe"
          /\ UNCHANGED <<outcome, response, error>>
       \/ \E e \in Exceptions : ReturnError(e)
    /\ UNCHANGED <<params, unused, response_text, initial_results, has_high_confidence, queries, qi,
                   nhits, all_results, seen_content, results, confidence_level,
                   llm_contexts>>

\* initial_results = db.similarity_search_with_relevance_scores(query_text, k=6)
\* has_high_confidence = any(...); if not has_high_confidence: return ...
InitialProbe ==
    /\ pc = "probe"
    /\ calls' = Append(calls, "probe")
    /\ \/ \E found \in ResultLists(PROBE_K(variant)) :
             /\ initial_results' = found
             /\ has_high_confidence' = HasHighConfidence(found)
             /\ IF HasHighConfidence(found)
                THEN pc' = "expand" /\ UNCHANGED <<outcome, response, error>>
                ELSE Return("no_match", NoMatchReply(variant, is_private))
       \/ /\ \E e \in Exceptions : ReturnError(e)
          /\ UNCHANGED <<initial_results, has_high_confidence>>
    /\ UNCHANGED <<params, unused, response_text, queries, qi, nhits, all_results, seen_content,
                   results, confidence_level, llm_contexts>>

\* response = model.invoke(prompt).content; the parse; the original query
\* put first when the parse did not yield it.  initial_results is not read
\* again and is dropped from the state here.
GenerateQueries ==
    /\ pc = "expand"
    /\ calls' = Append(calls, "expand")
    /\ initial_results' = <<>>
    /\ \/ \E text \in ExpansionOutputs :
             /\ queries' = WithOriginal(ParseQueries(text, MAX_GENERATED_QUERIES), query_text)
             /\ qi' = 1
             /\ pc' = "search"
             /\ UNCHANGED <<outcome, response, error>>
       \/ /\ \E e \in Exceptions : ReturnError(e)
          /\ UNCHANGED <<queries, qi>>
    /\ UNCHANGED <<params, unused, response_text, has_high_confidence, nhits, all_results,
                   seen_content, results, confidence_level, llm_contexts>>

\* results = db.similarity_search_with_relevance_scores(query, k=4) for
\* queries[qi]: it returns a list, whose pairs NextHit draws one at a time,
\* or it raises
SearchQuery ==
    /\ pc = "search"
    /\ calls' = Append(calls, "search")
    /\ \/ /\ pc' = "hits"
          /\ nhits' = 0
          /\ UNCHANGED <<outcome, response, error>>
       \/ /\ \E e \in Exceptions : ReturnError(e)
          /\ UNCHANGED nhits
    /\ UNCHANGED <<params, unused, response_text, initial_results, has_high_confidence, queries, qi,
                   all_results, seen_content, results, confidence_level, llm_contexts>>

\* one round of "for doc, score in results" on the next pair of the list
NextHit ==
    /\ pc = "hits"
    /\ nhits < Min(SEARCH_K(variant), MaxHits)
    /\ \E hit \in Hits :
          LET merged == MergeHit([all |-> all_results, seen |-> seen_content], hit)
          IN  /\ all_results' = merged.all
              /\ seen_content' = merged.seen
    /\ nhits' = nhits + 1
    /\ UNCHANGED <<params, unused, response_text, pc, initial_results, has_high_confidence, queries,
                   qi, results, confidence_level, response, outcome, error, calls,
                   llm_contexts>>

\* The result list is exhausted.  With queries left the loop goes on to the
\* next one; after the last one: the sort, good_results, "if not
\* good_results", results = good_results[:8], the context length test.
EndOfResults ==
    /\ pc = "hits"
    /\ IF qi < Len(queries)
       THEN /\ qi' = qi + 1
            /\ pc' = "search"
            /\ UNCHANGED <<all_results, results, outcome, response, error>>
       ELSE /\ all_results' = SortByScore(all_results)
            /\ UNCHANGED qi
            /\ IF GoodResults(SortByScore(all_results)) = <<>>
               THEN /\ Return("no_good_results", NoGoodResultsReply(variant, is_private))
                    /\ UNCHANGED results
               ELSE /\ results' = RetainedResults(all_results, variant)
                    /\ IF ContextTooShort(RetainedResults(all_results, variant), variant)
                       THEN Return("short_context", ShortContextReply(variant, is_private))
                       ELSE pc' = "confidence" /\ UNCHANGED <<outcome, response, error>>
    /\ UNCHANGED <<params, unused, response_text, initial_results, has_high_confidence, queries, nhits,
                   seen_content, confidence_level, calls, llm_contexts>>

\* faulty variant: the level is not tested, the answer is always generated
ConfidenceGate_NoGate ==
    /\ pc = "confidence"
    /\ calls' = Append(calls, "confidence")
    /\ llm_contexts' = llm_contexts \cup {results}
    /\ \E reply \in Raises \cup Returns(ConfidenceOutputs) :
          confidence_level' = EvaluateConfidence(reply)
    /\ pc' = "answer"
    /\ UNCHANGED <<params, unused, response_text, initial_results, has_high_confidence, queries, qi,
                   nhits, all_results, seen_content, results, outcome, response, error>>

\* confidence_level = evaluate_confidence(query_text, context_text);
\* if confidence_level == 'LOW': return ...
ConfidenceGate ==
    /\ pc = "confidence"
    /\ calls' = Append(calls, "confidence")
    /\ llm_contexts' = llm_contexts \cup {results}
    /\ \E reply \in Raises \cup Returns(ConfidenceOutputs) :
          /\ confidence_level' = EvaluateConfidence(reply)
          /\ IF EvaluateConfidence(reply) = LOW
             THEN Return("low_confidence", LowConfidenceReply(variant, is_private, query_text))
             ELSE pc' = "answer" /\ UNCHANGED <<outcome, response, error>>
    /\ UNCHANGED <<params, unused, response_text, initial_results, has_high_confidence, queries, qi,
                   nhits, all_results, seen_content, results>>

\* response_text = model.invoke(prompt).content, and the rest of the function
GetAIResponse ==
    /\ pc = "answer"
    /\ calls' = Append(calls, "answer")
    /\ llm_contexts' = llm_contexts \cup {results}
    /\ \/ \E text \in AnswerOutputs :
             /\ response_text' = text
             /\ Return(IF Contains(text, UNCERTAIN) THEN "uncertain" ELSE "answer",
                       AnswerReply(variant, is_private, use_docs, query_text,
                                   confidence_level, text, results))
       \/ /\ \E e \in Exceptions : ReturnError(e)
          /\ UNCHANGED response_text
    /\ UNCHANGED <<params, unused, initial_results, has_high_confidence, queries, qi,
                   nhits, all_results, seen_content, results, confidence_level>>

Next ==
    \/ PrepareDB
    \/ InitialProbe
    \/ GenerateQueries
    \/ SearchQuery
    \/ NextHit
    \/ EndOfResults
    \/ ConfidenceGate
    \/ GetAIResponse

Spec == Init /\ [][Next]_vars

(***************************************************************************)
(* evaluate_confidence alone (SpecConfidence): one call, on any output of  *)
(* the Language Model taken from a word with whitespace around it          *)
(***************************************************************************)

\* the longest run of whitespace put before and after a word
MaxPad == 1

Pads == UNION {[1..n -> Whitespace] : n \in 0..MaxPad}

ConfidenceWords ==
    { HIGH, MEDIUM, LOW, <<>>,
      <<"h", "i", "g", "h">>,
      <<"M", "e", "d", "i", "u", "m">>,
      <<"l", "O", "w">>,
      <<"H", "I", "G", "H", ".">>,
      <<"H", "I", " ", "G", "H">>,
      <<"L", "O", "W", "\n", "H", "I", "G", "H">>,
      <<"L", "O", "W", "E", "R">>,
      <<"n", "o", "n", "e">> }

ConfidenceTexts == {l \o w \o r : l \in Pads, w \in ConfidenceWords, r \in Pads}

\* a call evaluate_confidence(query, context) about to invoke the model
InitConfidence ==
    /\ variant \in Variants
    /\ query_text = <<"a", "b", "c", "d">>
    /\ is_private = FALSE
    /\ use_docs = TRUE
    /\ pc = "evaluate"
    /\ Locals
    /\ llm_reply \in Raises \cup Returns(ConfidenceTexts)
    /\ db = <<>>
    /\ order = <<>>
    /\ reordered_results = <<>>
    /\ max_docs = 0
    /\ NoAdapter
    /\ NoCiting

\* the body of evaluate_confidence, to its return
EvaluateConfidenceCall ==
    /\ pc = "evaluate"
    /\ confidence_level' = EvaluateConfidence(llm_reply)
    /\ pc' = "evaluated"
    /\ UNCHANGED <<params, unused, response_text, initial_results, has_high_confidence, queries, qi,
                   nhits, all_results, seen_content, results, response, outcome, error, calls,
                   llm_contexts>>

SpecConfidence == InitConfidence /\ [][EvaluateConfidenceCall]_vars

(***************************************************************************)
(* retrieve_for_queries alone (SpecStore): the Document Store's answer to  *)
(* each query is fixed, and the queries are retrieved in two orders        *)
(***************************************************************************)

\* the number of queries retrieved
NumStoreQueries == 2

\* the queries of the fourth expansion output, the question first
AllQueries ==
    << <<"a", "b", "c", "d">>, <<"w", "x", "y", "z">>, <<"e", "f", "g", "h">>,
       <<"i", "j", "k", "l">>, <<"m", "n", "o", "p">> >>

StoreQueries == SubSeq(AllQueries, 1, NumStoreQueries)

\* The pairs the store answers with: chunk 1 and chunk 2 tie at 0.95, chunk 2
\* is also found at the noise floor, chunk 3 (the same first 100 characters
\* as chunk 2) at 0.65.
StoreHits ==
    { [doc |-> 1, score |-> 95], [doc |-> 2, score |-> 40],
      [doc |-> 2, score |-> 95], [doc |-> 3, score |-> 65] }

\* a result list: at most MaxHits pairs, no chunk twice
StoreLists ==
    { list \in UNION {[1..n -> StoreHits] : n \in 0..MaxHits} :
        \A i, j \in 1..Len(list) : i # j => list[i].doc # list[j].doc }

Range(f) == {f[x] : x \in DOMAIN f}

RECURSIVE MergeList(_, _)
\* for doc, score in results: ...
MergeList(merged, list) ==
    IF list = <<>> THEN merged
    ELSE MergeList(MergeHit(merged, Head(list)), Tail(list))

RECURSIVE MergeQueries(_, _, _)
\* for i, query in enumerate(queries, 1): results = db.similarity_search...(query, k)
MergeQueries(merged, query_list, store) ==
    IF query_list = <<>> THEN merged
    ELSE MergeQueries(MergeList(merged, store[Head(query_list)]), Tail(query_list), store)

\* faulty variant: the merged list is returned as the loop left it
RetrieveForQueries_Unsorted(query_list, store) ==
    MergeQueries([all |-> <<>>, seen |-> {}], query_list, store).all

\* retrieve_for_queries(queries, db, k_per_query), db answering with store
RetrieveForQueries(query_list, store) ==
    SortByScore(MergeQueries([all |-> <<>>, seen |-> {}], query_list, store).all)

InitStore ==
    /\ variant = "cli"
    /\ query_text = StoreQueries[1]
    /\ is_private = FALSE
    /\ use_docs = TRUE
    /\ pc = "retrieve"
    /\ Locals
    /\ llm_reply = NoReply
    /\ db \in [Range(StoreQueries) -> StoreLists]
    /\ \E p \in Permutations(1..NumStoreQueries) :
          order = [i \in 1..NumStoreQueries |-> StoreQueries[p[i]]]
    /\ reordered_results = <<>>
    /\ max_docs = 0
    /\ NoAdapter
    /\ NoCiting

\* all_results = retrieve_for_queries(generated_queries, db, k_per_query), and
\* the same call with the queries in the other order
Retrieve ==
    /\ pc = "retrieve"
    /\ queries' = StoreQueries
    /\ all_results' = RetrieveForQueries(StoreQueries, db)
    /\ reordered_results' = RetrieveForQueries(order, db)
    /\ pc' = "retrieved"
    /\ UNCHANGED <<params, llm_reply, db, order, max_docs, adapter, citing, response_text, error,
                   initial_results,
                   has_high_confidence, qi, nhits, seen_content, results,
                   confidence_level, response, outcome, calls, llm_contexts>>

SpecStore == InitStore /\ [][Retrieve]_vars

(***************************************************************************)
(* The ranking alone (SpecRank): the statements after the merge loop, on   *)
(* any merged list: the bots' sort, filter and truncation, and the command *)
(* line's sort (the end of retrieve_for_queries) and truncation (main)     *)
(***************************************************************************)

\* the longest merged list
MaxMerged == 9

\* the scores of the merged pairs: all above the merge floor
RankScores == {50, 65, 95}

\* the values of --max-docs (type=int: any integer is accepted)
MaxDocsValues == {-1, 0, 2}

\* The merged list with these scores: its i-th pair is chunk 4 + i, so that
\* the chunks are numbered in the order the merge met them.
MergedList(scores) == [i \in 1..Len(scores) |-> [doc |-> 4 + i, score |-> scores[i]]]

\* list[:n] of Python
Slice(list, n) ==
    IF n >= 0 THEN Take(list, n)
    ELSE IF Len(list) + n <= 0 THEN <<>>
    ELSE SubSeq(list, 1, Len(list) + n)

\* The merge loop of a call has come to its end with this merged list (four
\* queries were searched), or retrieve_for_queries has, in the command line.
InitRank ==
    /\ variant \in Variants \cup {"cli", "query_docs"}
    /\ query_text = AllQueries[1]
    /\ is_private = FALSE
    /\ use_docs = TRUE
    /\ pc = (CASE variant = "cli" -> "limit"
               [] variant = "query_docs" -> "query"
               [] OTHER -> "hits")
    /\ initial_results = <<>>
    /\ has_high_confidence = (variant \in Variants)
    /\ queries = (IF variant = "query_docs" THEN <<>> ELSE SubSeq(AllQueries, 1, 4))
    /\ qi = (IF variant = "query_docs" THEN 0 ELSE 4)
    /\ nhits = 0
    /\ \E scores \in (IF variant = "query_docs" THEN {<<>>}
                      ELSE UNION {[1..n -> RankScores] : n \in 0..MaxMerged}) :
          /\ all_results = MergedList(scores)
          /\ seen_content = {ContentHash(4 + i) : i \in 1..Len(scores)}
    /\ results = <<>>
    /\ confidence_level = <<>>
    /\ response = <<>>
    /\ outcome = "none"
    /\ calls = (CASE variant = "cli" ->
                       <<"prepare_db", "expand", "search", "search", "search", "search">>
                  [] variant = "query_docs" -> <<"prepare_db">>
                  [] OTHER ->
                       <<"prepare_db", "probe", "expand", "search", "search", "search",
                         "search">>)
    /\ llm_contexts = {}
    /\ response_text = <<>>
    /\ error = <<>>
    /\ llm_reply = NoReply
    /\ db = <<>>
    /\ order = <<>>
    /\ reordered_results = <<>>
    /\ max_docs \in (IF variant = "cli" THEN MaxDocsValues ELSE {0})
    /\ NoAdapter
    /\ NoCiting

\* all_results.sort(key=lambda x: x[1], reverse=True); return all_results
\* and, in main: if len(all_results) == 0: return
\*               limited_results = all_results[:max_docs]
SortAndLimit ==
    /\ pc = "limit"
    /\ all_results' = SortByScore(all_results)
    /\ IF all_results = <<>>
       THEN pc' = "done" /\ UNCHANGED results
       ELSE pc' = "respond" /\ results' = Slice(SortByScore(all_results), max_docs)
    /\ UNCHANGED <<params, unused, response_text, initial_results, has_high_confidence, queries, qi,
                   nhits, seen_content, confidence_level, response, outcome, error, calls,
                   llm_contexts>>

\* the result lists of the store, most relevant first
DescendingLists(k) ==
    {list \in ResultLists(k) :
        \A i \in 1..(Len(list) - 1) : list[i].score >= list[i + 1].score}

\* query_docs.main: results = db.similarity_search_with_relevance_scores(
\* query_text, k=6); if len(results) == 0 or results[0][1] < 0.5: ... return;
\* context_text is then joined from every result.  No try: an exception of
\* the search leaves main.
QueryDocs ==
    /\ pc = "query"
    /\ calls' = Append(calls, "probe")
    /\ \/ \E found \in DescendingLists(6) :
             /\ results' = found
             /\ IF Len(found) = 0 \/ found[1].score < GOOD_FLOOR
                THEN pc' = "done" /\ outcome' = "no_match"
                ELSE pc' = "respond" /\ UNCHANGED outcome
             /\ UNCHANGED error
       \/ \E e \in Exceptions :
             /\ pc' = "raised"
             /\ error' = e
             /\ UNCHANGED <<results, outcome>>
    /\ UNCHANGED <<params, unused, response_text, initial_results, has_high_confidence,
                   queries, qi, nhits, all_results, seen_content, confidence_level,
                   response, llm_contexts>>

NextRank ==
    \/ EndOfResults
    \/ SortAndLimit
    \/ QueryDocs

SpecRank == InitRank /\ [][NextRank]_vars

(***************************************************************************)
(* The query expansion alone (SpecExpand): the parse of the Language       *)
(* Model's output in the two bots, and generate_multiple_queries of the    *)
(* command line, on any output or a raise                                  *)
(***************************************************************************)

\* more outputs of the query generation prompt: the question not in the first
\* place, bullets, a query of three characters, five list lines, a line
\* with two dots, a dash line with a dot in its text
ExpansionTexts ==
    ExpansionOutputs \cup
    { <<"1", ".", " ", "w", "x", "y", "z", "\n", "2", ".", " ", "a", "b", "c", "d">>,
      <<BULLET, " ", "w", "x", "y", "z", "\n", BULLET, "e", "f", "g", "h">>,
      <<"1", ".", " ", "a", "b", "c", "\n", "2", ".", " ", "w", "x", "y", "z">>,
      <<"1", ".", "w", "x", "y", "z", "\n", "2", ".", "e", "f", "g", "h", "\n", "3", ".", "i", "j", "k", "l",
        "\n", "4", ".", "m", "n", "o", "p", "\n", "5", ".", "w", "x", "y", "z">>,
      <<"1", ".", " ", "w", "x", ".", "y", "z">>,
      <<"-", " ", "a", "b", ".", "w", "x", "y", "z">> }

\* generate_multiple_queries(original_query), given what model.invoke does:
\* the parse without a cap, the original query put first when the parse did
\* not yield it; except Exception: return [original_query]
GenerateMultipleQueries(original_query, reply) ==
    IF reply.raised THEN <<original_query>>
    ELSE WithOriginal(ParseQueries(reply.content, 0), original_query)

InitExpand ==
    /\ variant \in Variants \cup {"cli"}
    /\ query_text \in Questions
    /\ is_private = FALSE
    /\ use_docs = TRUE
    /\ pc = "expand"
    /\ Locals
    /\ llm_reply \in Raises \cup Returns(ExpansionTexts)
    /\ db = <<>>
    /\ order = <<>>
    /\ reordered_results = <<>>
    /\ max_docs = 0
    /\ NoAdapter
    /\ NoCiting

\* In the bots: response = model.invoke(prompt).content, the parse, the
\* original query put first when missing; a raise goes to the except clause
\* of query_rag_system.  In the command line:
\* generated_queries = generate_multiple_queries(query_text), and main's
\* "if len(generated_queries) == 0: print(...); return".
ExpandQueries ==
    /\ pc = "expand"
    /\ IF variant = "cli"
       THEN /\ queries' = GenerateMultipleQueries(query_text, llm_reply)
            /\ pc' = IF Len(GenerateMultipleQueries(query_text, llm_reply)) = 0
                     THEN "failed_to_generate" ELSE "expanded"
            /\ UNCHANGED <<outcome, response, error>>
       ELSE IF llm_reply.raised
            THEN ReturnError(llm_reply.exception) /\ UNCHANGED queries
            ELSE /\ queries' = WithOriginal(ParseQueries(llm_reply.content, MAX_GENERATED_QUERIES),
                                            query_text)
                 /\ pc' = "expanded"
                 /\ UNCHANGED <<outcome, response, error>>
    /\ UNCHANGED <<params, unused, response_text, initial_results, has_high_confidence, qi, nhits,
                   all_results, seen_content, results, confidence_level, calls,
                   llm_contexts>>

SpecExpand == InitExpand /\ [][ExpandQueries]_vars

(***************************************************************************)
(* The message handlers (SpecAdapter): handle_message of the Telegram bot  *)
(* and on_message of the Discord bot, two updates at a time, with          *)
(* log_interaction of webhook_logger.  A handler is a coroutine: the event *)
(* loop's one thread executes it from one await to the next, and           *)
(* query_rag_system is called in it as a plain function.                   *)
(***************************************************************************)

\* the updates received
Updates == {1, 2}

\* update.effective_chat.type, whether "@" + bot_username is in the text,
\* whose message the update replies to (no bot's, this bot's, another bot's),
\* and message_text once the mention is removed
TelegramUpdates ==
    [chat_type : {"private", "group"}, mention : BOOLEAN,
     reply_to : {"no_bot", "this_bot", "other_bot"}, text : {<<>>, <<"h", "i">>}]

\* message.author.bot, the command when message.content starts with "!"
\* ("": it does not), message.guild is not None, bot.user in
\* message.mentions, and content once the mention is removed
DiscordMessages ==
    [author_bot : BOOLEAN, command : {"", "myid", "other"}, guild : BOOLEAN,
     bot_mentioned : BOOLEAN, text : {<<>>, <<"h", "i">>}]

\* bot_mentioned of the Telegram handlers: the mention is in the text, or
\* update.message.reply_to_message.from_user.is_bot
BotMentioned(update) == update.mention \/ update.reply_to # "no_bot"

\* the programs built on the Telegram Application
TelegramVariants == {"telegram", "group_friendly"}

\* "value": response[:1024], the Discord field value limit
FIELD_LIMIT == 1024

\* what query_rag_system can return to a handler: an escalation, the error
\* reply, an answer
PipelineReplies(v, private, question) ==
    { NoMatchReply(v, private),
      ErrorReply(v, private, <<>>),
      AnswerReply(v, private, TRUE, question, HIGH, <<"o", "k">>, <<>>) }

\* session.post(WEBHOOK_URL, json=payload): a response with a status, or an
\* exception
PostOutcomes == [raised : {FALSE}, status : {204, 404}] \cup Raises

\* faulty variant: no try around the POST
LogInteraction_NoTry(url, post) ==
    IF url = <<>> THEN [raised |-> FALSE, posted |-> FALSE, printed |-> "URL_NOT_SET"]
    ELSE IF post.raised THEN [raised |-> TRUE, posted |-> TRUE, printed |-> "NOTHING"]
    ELSE IF post.status # 204
         THEN [raised |-> FALSE, posted |-> TRUE, printed |-> "FAILED_TO_SEND"]
         ELSE [raised |-> FALSE, posted |-> TRUE, printed |-> "NOTHING"]

\* log_interaction: "if not WEBHOOK_URL: print(...); return"; the POST in a
\* try: "if response.status != 204: print(...)", "except Exception as e:
\* print(...)".  What the call does: whether it raises, whether it posted,
\* what it printed.
LogInteraction(url, post) ==
    IF url = <<>> THEN [raised |-> FALSE, posted |-> FALSE, printed |-> "URL_NOT_SET"]
    ELSE IF post.raised THEN [raised |-> FALSE, posted |-> TRUE, printed |-> "WEBHOOK_ERROR"]
    ELSE IF post.status # 204
         THEN [raised |-> FALSE, posted |-> TRUE, printed |-> "FAILED_TO_SEND"]
         ELSE [raised |-> FALSE, posted |-> TRUE, printed |-> "NOTHING"]

\* a handler that has not started
NewHandler(update) ==
    [pc |-> "received", update |-> update, response |-> <<>>, returned |-> <<>>,
     printed |-> "NOTHING", sent |-> <<>>, events |-> <<>>]

\* what a handler has done so far is kept in events: a call of
\* query_rag_system and what it returned, a POST to the webhook and the
\* response in its payload, a message delivered to the user
Event(kind, text) == [kind |-> kind, text |-> text]

Over == {"ignored", "command", "dm_notice", "greeted", "done", "failed"}

InitAdapter ==
    /\ variant \in Variants \cup {"group_friendly"}
    /\ query_text = <<>>
    /\ is_private = FALSE
    /\ use_docs = TRUE
    /\ pc = "serve"
    /\ Locals
    /\ llm_reply = NoReply
    /\ db = <<>>
    /\ order = <<>>
    /\ reordered_results = <<>>
    /\ max_docs = 0
    /\ WEBHOOK_URL \in {<<>>, <<"u", "r", "l">>}
    /\ \E received \in [Updates -> IF variant \in TelegramVariants THEN TelegramUpdates
                                   ELSE DiscordMessages] :
          handlers = [t \in Updates |-> NewHandler(received[t])]
    /\ running = 0
    /\ invocations = <<>>
    /\ heard = <<>>
    /\ NoCiting

\* The event loop can run the coroutine of update t: its thread is executing
\* no coroutine.  The Telegram Application (built without
\* concurrent_updates) handles one update after the other; discord.py
\* runs every event in a task of its own.
Schedulable(t) ==
    /\ running = 0
    /\ variant \in TelegramVariants =>
          \A u \in Updates \ {t} : handlers[u].pc \in {"received"} \cup Over

\* is_private = chat_type == 'private'
IsPrivate(update) == variant = "telegram" /\ update.chat_type = "private"

\* The handler from its first statement to its first await.  Telegram: an
\* unmentioned group message is ignored, an empty one is greeted, otherwise
\* send_chat_action.  Discord: a bot's message is ignored, a command is
\* passed to process_commands (!myid is answered), a direct message gets the
\* notice, an unmentioned message is ignored, an empty one is greeted,
\* otherwise typing().  telegram_bot_group_friendly: an unmentioned message
\* of a group is ignored, any other is answered with the test response.
Handle(t) ==
    /\ handlers[t].pc = "received"
    /\ Schedulable(t)
    /\ LET update == handlers[t].update
           to(place) == handlers' = [handlers EXCEPT ![t].pc = place]
           send(place, text) ==
               handlers' = [handlers EXCEPT ![t].pc = place, ![t].sent = <<text>>,
                                           ![t].events = <<Event("reply", text)>>]
       IN  CASE variant = "telegram" ->
                  IF update.chat_type # "private" /\ ~BotMentioned(update) THEN to("ignored")
                  ELSE IF update.text = <<>> THEN send("greeted", <<"HELLO">>)
                  ELSE to("typing")
             [] variant = "group_friendly" ->
                  IF update.chat_type = "group" /\ ~BotMentioned(update) THEN to("ignored")
                  ELSE IF update.text = <<>> THEN send("greeted", <<"HELLO">>)
                  ELSE send("greeted", <<"HELLO", "YOU_ASKED">> \o update.text)
             [] OTHER ->
                  IF update.author_bot THEN to("ignored")
                  ELSE IF update.command = "myid" THEN send("command", <<"YOUR_ID">>)
                  ELSE IF update.command # "" THEN to("command")
                  ELSE IF ~update.guild THEN send("dm_notice", <<"SERVERS_ONLY">>)
                  ELSE IF ~update.bot_mentioned THEN to("ignored")
                  ELSE IF update.text = <<>> THEN send("greeted", <<"HELLO">>)
                  ELSE to("typing")
    /\ UNCHANGED <<params, pc, initial_results, has_high_confidence, queries, qi, nhits,
                   all_results, seen_content, results, confidence_level, response,
                   outcome, calls, llm_contexts, llm_reply, db, order,
                   reordered_results, max_docs, response_text, error, citing, WEBHOOK_URL,
                   running, invocations, heard>>

\* The typing indicator is over (await context.bot.send_chat_action(...),
\* async with message.channel.typing()).  When it raised, the handler is
\* left.  Otherwise response = query_rag_system(message_text,
\* is_private=is_private), or query_rag_system(content, use_docs=True): a
\* call in the coroutine, which keeps the thread until it returns.
CallPipeline(t) ==
    /\ handlers[t].pc = "typing"
    /\ Schedulable(t)
    /\ \/ handlers' = [handlers EXCEPT ![t].pc = "pipeline"] /\ running' = t
       \/ handlers' = [handlers EXCEPT ![t].pc = "failed"] /\ UNCHANGED running
    /\ UNCHANGED <<params, pc, initial_results, has_high_confidence, queries, qi, nhits,
                   all_results, seen_content, results, confidence_level, response,
                   outcome, calls, llm_contexts, llm_reply, db, order,
                   reordered_results, max_docs, response_text, error, citing, WEBHOOK_URL,
                   invocations, heard>>

\* query_rag_system returns; user_data, metadata; await log_interaction(...)
\* as far as its first await: with no WEBHOOK_URL it returns at once and the
\* handler goes on to send the response, otherwise the POST is awaited
PipelineReturns(t) ==
    /\ handlers[t].pc = "pipeline"
    /\ running = t
    /\ \E reply \in PipelineReplies(variant, IsPrivate(handlers[t].update),
                                    handlers[t].update.text) :
          IF WEBHOOK_URL = <<>>
          THEN LET logged == LogInteraction(WEBHOOK_URL, [raised |-> FALSE, status |-> 204])
               IN  handlers' = [handlers EXCEPT
                                   ![t].response = reply,
                                   ![t].returned = reply,
                                   ![t].printed = logged.printed,
                                   ![t].pc = IF logged.raised THEN "failed" ELSE "sending",
                                   ![t].sent = IF logged.raised THEN <<>> ELSE <<reply>>,
                                   ![t].events = Append(@, Event("pipeline", reply))]
          ELSE handlers' = [handlers EXCEPT
                               ![t].response = reply,
                               ![t].returned = reply,
                               ![t].pc = "posting",
                               ![t].events = @ \o <<Event("pipeline", reply),
                                                    Event("audit", Take(reply, FIELD_LIMIT))>>]
    /\ running' = 0
    /\ UNCHANGED <<params, pc, initial_results, has_high_confidence, queries, qi, nhits,
                   all_results, seen_content, results, confidence_level, response,
                   outcome, calls, llm_contexts, llm_reply, db, order,
                   reordered_results, max_docs, response_text, error, citing, WEBHOOK_URL,
                   invocations, heard>>

\* the POST is over, log_interaction returns, and the handler sends the
\* response: await update.message.reply_text(response, ...), or
\* await message.channel.send(response)
PostCompletes(t) ==
    /\ handlers[t].pc = "posting"
    /\ Schedulable(t)
    /\ \E post \in PostOutcomes :
          LET logged == LogInteraction(WEBHOOK_URL, post)
          IN  handlers' = [handlers EXCEPT
                              ![t].printed = logged.printed,
                              ![t].pc = IF logged.raised THEN "failed" ELSE "sending",
                              ![t].sent = IF logged.raised THEN <<>>
                                          ELSE <<handlers[t].response>>]
    /\ UNCHANGED <<params, pc, initial_results, has_high_confidence, queries, qi, nhits,
                   all_results, seen_content, results, confidence_level, response,
                   outcome, calls, llm_contexts, llm_reply, db, order,
                   reordered_results, max_docs, response_text, error, citing, WEBHOOK_URL,
                   running, invocations, heard>>

\* faulty variant: a send that raised is followed by a second run of the
\* handler from its typing indicator
SendCompletes_Retry(t) ==
    /\ handlers[t].pc = "sending"
    /\ Schedulable(t)
    /\ \/ handlers' = [handlers EXCEPT
                           ![t].pc = "done",
                           ![t].events = Append(@, Event("reply", handlers[t].response))]
       \/ handlers' = [handlers EXCEPT ![t].pc = "typing"]
    /\ UNCHANGED <<params, pc, initial_results, has_high_confidence, queries, qi, nhits,
                   all_results, seen_content, results, confidence_level, response,
                   outcome, calls, llm_contexts, llm_reply, db, order,
                   reordered_results, max_docs, response_text, error, citing, WEBHOOK_URL,
                   running, invocations, heard>>

\* The send is over.  When it raised: the Telegram handler is left by the
\* exception; the Discord handler catches discord.HTTPException and
\* sends the notice of the failure, which is delivered or raises in its turn.
SendCompletes(t) ==
    /\ handlers[t].pc = "sending"
    /\ Schedulable(t)
    /\ \/ handlers' = [handlers EXCEPT
                           ![t].pc = "done",
                           ![t].events = Append(@, Event("reply", handlers[t].response))]
       \/ IF variant = "telegram"
          THEN handlers' = [handlers EXCEPT ![t].pc = "failed"]
          ELSE \/ handlers' = [handlers EXCEPT
                                  ![t].pc = "done",
                                  ![t].sent = Append(@, <<"SEND_ERROR">>),
                                  ![t].events = Append(@, Event("reply", <<"SEND_ERROR">>))]
               \/ handlers' = [handlers EXCEPT
                                  ![t].pc = "failed",
                                  ![t].sent = Append(@, <<"SEND_ERROR">>)]
    /\ UNCHANGED <<params, pc, initial_results, has_high_confidence, queries, qi, nhits,
                   all_results, seen_content, results, confidence_level, response,
                   outcome, calls, llm_contexts, llm_reply, db, order,
                   reordered_results, max_docs, response_text, error, citing, WEBHOOK_URL,
                   running, invocations, heard>>

NextAdapter ==
    \E t \in Updates :
        \/ Handle(t)
        \/ CallPipeline(t)
        \/ PipelineReturns(t)
        \/ PostCompletes(t)
        \/ SendCompletes(t)

SpecAdapter == InitAdapter /\ [][NextAdapter]_vars

(***************************************************************************)
(* Concurrent calls of query_rag_system (SpecIsolation): two calls, each   *)
(* with its own locals, their external calls interleaved in any order.     *)
(* A step of a call is one external call and the statements up to the next *)
(* one.                                                                    *)
(***************************************************************************)

\* the concurrent calls
Calls == {1, 2}

\* the result lists of the per-query searches: chunks 2 and 3 have the same
\* first 100 characters
IsolationLists ==
    { <<>>,
      <<[doc |-> 2, score |-> 95], [doc |-> 1, score |-> 95]>>,
      <<[doc |-> 3, score |-> 95]>> }

OneRaise == [raised : {TRUE}, exception : {<<"4", "2", "9">>}]

\* what the Document Store or the Language Model can do at a call site
Heard(place) ==
    CASE place = "prepare" -> Returns({<<>>}) \cup OneRaise
      [] place = "probe" ->
            Returns({<<[doc |-> 1, score |-> 95]>>, <<[doc |-> 1, score |-> 65]>>})
                \cup OneRaise
      [] place = "expand" -> Returns({<<>>, <<"-", " ", "w", "x", "y", "z">>}) \cup OneRaise
      [] place = "search" -> Returns(IsolationLists) \cup OneRaise
      [] place = "confidence" -> Returns({HIGH, LOW}) \cup OneRaise
      [] place = "answer" -> Returns({<<"o", "k">>, UNCERTAIN}) \cup OneRaise
      [] OTHER -> {}

\* the parameters and the locals of a call before its first statement
NewCall(question, private) ==
    [pc |-> "prepare", query_text |-> question, is_private |-> private,
     has_high_confidence |-> FALSE, queries |-> <<>>, qi |-> 0, all_results |-> <<>>,
     seen_content |-> {}, results |-> <<>>, confidence_level |-> <<>>,
     response |-> <<>>, outcome |-> "none"]

\* a return statement
Finish(local, kind, text) ==
    [local EXCEPT !.pc = "done", !.outcome = kind, !.response = text]

\* the statements after the merge loop: the sort, the filter, the two tests
AfterLoop(v, local) ==
    LET sorted == SortByScore(local.all_results)
        kept == RetainedResults(local.all_results, v)
    IN  IF GoodResults(sorted) = <<>>
        THEN Finish([local EXCEPT !.all_results = sorted], "no_good_results",
                    NoGoodResultsReply(v, local.is_private))
        ELSE IF ContextTooShort(kept, v)
        THEN Finish([local EXCEPT !.all_results = sorted, !.results = kept],
                    "short_context", ShortContextReply(v, local.is_private))
        ELSE [local EXCEPT !.all_results = sorted, !.results = kept, !.pc = "confidence"]

\* One external call of query_rag_system and the statements that follow it,
\* on the locals of the call: heard is what the external call did.
StepOfCall(v, local, heard_now) ==
    IF local.pc # "confidence" /\ heard_now.raised
    THEN Finish(local, "error", ErrorReply(v, local.is_private, heard_now.exception))
    ELSE CASE local.pc = "prepare" -> [local EXCEPT !.pc = "probe"]
           [] local.pc = "probe" ->
                 IF HasHighConfidence(heard_now.content)
                 THEN [local EXCEPT !.has_high_confidence = TRUE, !.pc = "expand"]
                 ELSE Finish(local, "no_match", NoMatchReply(v, local.is_private))
           [] local.pc = "expand" ->
                 [local EXCEPT
                     !.queries = WithOriginal(ParseQueries(heard_now.content,
                                                           MAX_GENERATED_QUERIES),
                                              local.query_text),
                     !.qi = 1,
                     !.pc = "search"]
           [] local.pc = "search" ->
                 LET merged == MergeList([all |-> local.all_results,
                                          seen |-> local.seen_content],
                                         heard_now.content)
                     after == [local EXCEPT !.all_results = merged.all,
                                            !.seen_content = merged.seen]
                 IN  IF local.qi < Len(local.queries)
                     THEN [after EXCEPT !.qi = local.qi + 1]
                     ELSE AfterLoop(v, after)
           [] local.pc = "confidence" ->
                 LET level == EvaluateConfidence(heard_now)
                 IN  IF level = LOW
                     THEN Finish([local EXCEPT !.confidence_level = level], "low_confidence",
                                 LowConfidenceReply(v, local.is_private, local.query_text))
                     ELSE [local EXCEPT !.confidence_level = level, !.pc = "answer"]
           [] local.pc = "answer" ->
                 Finish(local,
                        IF Contains(heard_now.content, UNCERTAIN) THEN "uncertain"
                        ELSE "answer",
                        AnswerReply(v, local.is_private, TRUE, local.query_text,
                                    local.confidence_level, heard_now.content,
                                    local.results))
           [] OTHER -> local

\* faulty variant: one set of seen prefixes for the module, shared by the calls
SeenContent_Shared(i) == UNION {invocations[j].seen_content : j \in Calls}

\* seen_content = set(): the set a call reads is its own local
SeenContent(i) == invocations[i].seen_content

InitIsolation ==
    /\ variant \in Variants
    /\ query_text = <<>>
    /\ is_private = FALSE
    /\ use_docs = TRUE
    /\ pc = "serve"
    /\ Locals
    /\ llm_reply = NoReply
    /\ db = <<>>
    /\ order = <<>>
    /\ reordered_results = <<>>
    /\ max_docs = 0
    /\ WEBHOOK_URL = <<>>
    /\ handlers = <<>>
    /\ running = 0
    /\ \E private \in (IF variant = "telegram" THEN BOOLEAN ELSE {FALSE}) :
          invocations = [i \in Calls |->
                            IF i = 1 THEN NewCall(<<"a", "b", "c", "d">>, FALSE)
                            ELSE NewCall(<<"h", "i">>, private)]
    /\ heard = [i \in Calls |-> <<>>]
    /\ NoCiting

\* call i makes its next external call and runs to the one after
Advance(i) ==
    /\ invocations[i].pc # "done"
    /\ \E heard_now \in Heard(invocations[i].pc) :
          /\ invocations' =
                [invocations EXCEPT
                    ![i] = StepOfCall(variant,
                                      [invocations[i] EXCEPT !.seen_content = SeenContent(i)],
                                      heard_now)]
          /\ heard' = [heard EXCEPT ![i] = Append(@, heard_now)]
    /\ UNCHANGED <<params, pc, initial_results, has_high_confidence, queries, qi, nhits,
                   all_results, seen_content, results, confidence_level, response,
                   outcome, calls, llm_contexts, llm_reply, db, order,
                   reordered_results, max_docs, response_text, error, citing, WEBHOOK_URL,
                   handlers, running>>

NextIsolation == \E i \in Calls : Advance(i)

SpecIsolation == InitIsolation /\ [][NextIsolation]_vars

(***************************************************************************)
(* The citations alone (SpecCite): the loop that formats the sources of    *)
(* the results and the removal of duplicates, in the two bots, in          *)
(* multi_query_rag.main ("cli") and in query_docs.main ("query_docs")      *)
(***************************************************************************)

\* directories under "data/", and file names without extension
Directories == {<<"d", "o", "c", "s", "/">>, <<"b", "i", "g", "-", "d", "a", "t", "a", "/">>}

FileNames == {<<"i", "n", "t", "r", "o">>, <<"a", "-", "b">>}

Extensions == {<<".", "m", "d">>, <<".", "m", "d", "x">>}

\* the longest chain of directories
MaxDirectories == 2

RECURSIVE Concat(_)
\* "".join(parts)
Concat(parts) == IF parts = <<>> THEN <<>> ELSE Head(parts) \o Concat(Tail(parts))

\* doc.metadata["source"] of the files DirectoryLoader finds under "data/":
\* "data/", directories, a name, ".md" or ".mdx"
SourcePaths ==
    { <<"d", "a", "t", "a", "/">> \o Concat(dirs) \o name \o ext :
        dirs \in UNION {[1..n -> Directories] : n \in 0..MaxDirectories},
        name \in FileNames, ext \in Extensions }

\* the sources of the result lists: no source, two files of one name in two
\* directories, the same name with the other extension, another file
CitedPaths ==
    { <<>>,
      <<"d", "a", "t", "a", "/", "d", "o", "c", "s", "/", "a", "/", "i", "n", "t", "r", "o", ".", "m", "d">>,
      <<"d", "a", "t", "a", "/", "d", "o", "c", "s", "/", "b", "/", "i", "n", "t", "r", "o", ".", "m", "d">>,
      <<"d", "a", "t", "a", "/", "d", "o", "c", "s", "/", "b", "/", "i", "n", "t", "r", "o", ".", "m", "d", "x">>,
      <<"d", "a", "t", "a", "/", "d", "o", "c", "s", "/", "c", ".", "m", "d">> }

\* source_query of a result (multi_query_rag)
SourceQueries == {<<"a", "b", "c", "d">>, <<"w", "x", "y", "z">>}

\* a result, as the citation loop reads it
CitedResults(v) ==
    [source : CitedPaths, via : IF v = "cli" THEN SourceQueries ELSE {<<>>}]

\* f" (via: {source_query[:50]}...)"
Via(source_query) == <<" ", "(", "VIA">> \o Take(source_query, 50) \o <<"...", ")">>

\* One round of the loop "for doc, _score in results": the element appended
\* to sources / formatted_sources, <<>> when nothing is appended.  The bots
\* skip a result without source; the command lines append "Unknown source".
FormattedSource(v, r) ==
    IF r.source # <<>>
    THEN IF v \in Variants THEN <<SourceLine(r.source)>>
         ELSE LET link == <<"[">> \o ReadableTitle(r.source) \o <<"]", "(">>
                              \o FullUrl(r.source) \o <<")">>
              IN  IF v = "cli" THEN <<link \o Via(r.via)>> ELSE <<link>>
    ELSE IF v \in Variants THEN <<>>
         ELSE IF v = "cli" THEN << <<"UNKNOWN_SOURCE">> \o Via(r.via) >>
         ELSE << <<"UNKNOWN_SOURCE">> >>

RECURSIVE FormattedSources(_, _)
FormattedSources(v, list) ==
    IF list = <<>> THEN <<>>
    ELSE FormattedSource(v, Head(list)) \o FormattedSources(v, Tail(list))

\* source_key = source.split("]")[0] + "]"
SourceKey(source) == SplitOn(source, "]")[1] \o <<"]">>

RECURSIVE UniqueByKey(_, _)
\* multi_query_rag: "if source_key not in seen: unique_sources.append(source);
\* seen.add(source_key)"
UniqueByKey(list, seen) ==
    IF list = <<>> THEN <<>>
    ELSE IF SourceKey(Head(list)) \in seen THEN UniqueByKey(Tail(list), seen)
    ELSE <<Head(list)>> \o UniqueByKey(Tail(list), seen \cup {SourceKey(Head(list))})

\* unique_sources, as it is rendered: list(dict.fromkeys(sources))[:8] or
\* [:3] in the bots; every first occurrence in query_docs; every first
\* occurrence of a source_key in multi_query_rag
UniqueSources(v, list) ==
    IF v \in Variants THEN Take(UniqueInOrder(FormattedSources(v, list)), MAX_SOURCES(v))
    ELSE IF v = "cli" THEN UniqueByKey(FormattedSources(v, list), {})
    ELSE UniqueInOrder(FormattedSources(v, list))

InitCite ==
    /\ variant \in Variants \cup {"cli", "query_docs"}
    /\ query_text = <<"a", "b", "c", "d">>
    /\ is_private = FALSE
    /\ use_docs = TRUE
    /\ pc = "cite"
    /\ Locals
    /\ llm_reply = NoReply
    /\ db = <<>>
    /\ order = <<>>
    /\ reordered_results = <<>>
    /\ max_docs = 0
    /\ NoAdapter
    /\ \/ cited_results \in UNION {[1..n -> CitedResults(variant)] :
                                     n \in 0..MAX_RESULTS("discord")}
       \/ \E path \in SourcePaths : cited_results = <<[source |-> path, via |-> <<>>]>>
    /\ full_urls = <<>>
    /\ unique_sources = <<>>

\* the whole citation loop and the removal of duplicates
FormatSources ==
    /\ pc = "cite"
    /\ full_urls' = [i \in 1..Len(cited_results) |->
                        IF cited_results[i].source = <<>> THEN <<>>
                        ELSE FullUrl(cited_results[i].source)]
    /\ unique_sources' = UniqueSources(variant, cited_results)
    /\ pc' = "cited"
    /\ UNCHANGED <<params, llm_reply, db, order, reordered_results, max_docs, adapter,
                   response_text, initial_results, has_high_confidence, queries, qi,
                   nhits, all_results, seen_content, results, confidence_level,
                   response, outcome, error, calls, llm_contexts, cited_results>>

SpecCite == InitCite /\ [][FormatSources]_vars

(***************************************************************************)
(* query_rag_system on a fixed Document Store (SpecProbe): the store ranks *)
(* its chunks for each query once and for all, and the probe and the       *)
(* per-query searches read the first k pairs of that ranking               *)
(***************************************************************************)

\* the queries the store is asked: the question and one generated query
RankedQueries == {<<"a", "b", "c", "d">>, <<"w", "x", "y", "z">>}

\* the Language Model's answers to the query generation prompt: nothing, the
\* generated query, the generated query and then the question, the question
\* and then the generated query
RankedOutputs ==
    { <<>>,
      <<"1", ".", " ", "w", "x", "y", "z">>,
      <<"1", ".", " ", "w", "x", "y", "z", "\n", "2", ".", " ", "a", "b", "c", "d">>,
      <<"1", ".", " ", "a", "b", "c", "d", "\n", "2", ".", " ", "w", "x", "y", "z">> }

\* the relevance of a chunk for a query: 0 when the store does not return
\* the chunk, else its score
Relevances == {0, 50, 95}

\* The ranking of the store for one query: the chunks it returns, in
\* descending order of score, chunks of equal score in the order of the store
Ranking(relevance) ==
    SortByScore(SelectSeq([d \in Docs |-> [doc |-> d, score |-> relevance[d]]],
                          LAMBDA hit : hit.score > 0))

\* db.similarity_search_with_relevance_scores(query, k=k): the first k pairs
\* of the ranking
SimilaritySearch(store, query, k) == Take(store[query], k)

InitProbe ==
    /\ variant \in Variants
    /\ query_text = <<"a", "b", "c", "d">>
    /\ is_private = FALSE
    /\ use_docs = TRUE
    /\ pc = "probe"
    /\ Locals
    /\ llm_reply = NoReply
    /\ \E relevance \in [RankedQueries -> [Docs -> Relevances]] :
          db = [q \in RankedQueries |-> Ranking(relevance[q])]
    /\ order = <<>>
    /\ reordered_results = <<>>
    /\ max_docs = 0
    /\ NoAdapter
    /\ NoCiting

\* initial_results = db.similarity_search_with_relevance_scores(query_text, k=6)
\* has_high_confidence = any(...); if not has_high_confidence: return ...
ProbeStore ==
    /\ pc = "probe"
    /\ calls' = Append(calls, "probe")
    /\ LET found == SimilaritySearch(db, query_text, PROBE_K(variant))
       IN  /\ initial_results' = found
           /\ has_high_confidence' = HasHighConfidence(found)
           /\ IF HasHighConfidence(found)
              THEN pc' = "expand" /\ UNCHANGED <<outcome, response, error>>
              ELSE Return("no_match", NoMatchReply(variant, is_private))
    /\ UNCHANGED <<params, llm_reply, db, order, reordered_results, max_docs, adapter, citing,
                   response_text, queries, qi, nhits, all_results, seen_content, results,
                   confidence_level, llm_contexts>>

\* response = model.invoke(prompt).content; the parse; the original query
\* put first when the parse did not yield it
ExpandForStore ==
    /\ pc = "expand"
    /\ calls' = Append(calls, "expand")
    /\ \E reply \in Raises \cup Returns(RankedOutputs) :
          /\ llm_reply' = reply
          /\ IF reply.raised
             THEN ReturnError(reply.exception) /\ UNCHANGED queries
             ELSE /\ queries' = WithOriginal(ParseQueries(reply.content, MAX_GENERATED_QUERIES),
                                             query_text)
                  /\ pc' = "search"
                  /\ UNCHANGED <<outcome, response, error>>
    /\ UNCHANGED <<params, db, order, reordered_results, max_docs, adapter, citing,
                   response_text, initial_results, has_high_confidence, qi, nhits,
                   all_results, seen_content, results, confidence_level, llm_contexts>>

\* "for query in queries" with its searches and the merge, the sort,
\* good_results, "if not good_results: return ...", results = good_results[:8]
SearchStore ==
    /\ pc = "search"
    /\ LET found == [q \in RankedQueries |-> SimilaritySearch(db, q, SEARCH_K(variant))]
           merged == MergeQueries([all |-> <<>>, seen |-> {}], queries, found)
       IN  /\ all_results' = SortByScore(merged.all)
           /\ seen_content' = merged.seen
           /\ IF GoodResults(SortByScore(merged.all)) = <<>>
              THEN /\ Return("no_good_results", NoGoodResultsReply(variant, is_private))
                   /\ UNCHANGED results
              ELSE /\ results' = RetainedResults(merged.all, variant)
                   /\ pc' = "context"
                   /\ UNCHANGED <<outcome, response, error>>
    /\ qi' = Len(queries)
    /\ UNCHANGED <<params, llm_reply, db, order, reordered_results, max_docs, adapter, citing,
                   response_text, initial_results, has_high_confidence, queries, nhits,
                   confidence_level, calls, llm_contexts>>

NextProbe ==
    \/ ProbeStore
    \/ ExpandForStore
    \/ SearchStore

SpecProbe == InitProbe /\ [][NextProbe]_vars

(***************************************************************************)
(* Properties of query_rag_system (Spec)                                   *)
(***************************************************************************)

\* the external call sites
Sites == {"prepare_db", "probe", "expand", "search", "confidence", "answer"}

LanguageModelSites == {"expand", "confidence", "answer"}

\* the number of calls made at a site
RECURSIVE CountIn(_, _)
CountIn(list, site) ==
    IF list = <<>> THEN 0
    ELSE (IF Head(list) = site THEN 1 ELSE 0) + CountIn(Tail(list), site)

Made(site) == CountIn(calls, site) > 0

LastCall == IF calls = <<>> THEN "none" ELSE calls[Len(calls)]

\* a symbol occurs in a reply
Mentions(text, symbol) == \E i \in 1..Len(text) : text[i] = symbol

Outcomes ==
    {"no_match", "no_good_results", "short_context", "low_confidence", "uncertain",
     "answer", "error"}

TypeOK ==
    /\ variant \in Variants
    /\ query_text \in Questions
    /\ is_private \in BOOLEAN
    /\ pc \in {"prepare", "probe", "expand", "search", "hits", "confidence", "answer", "done"}
    /\ outcome \in Outcomes \cup {"none"}
    /\ (pc = "done") = (outcome # "none")
    /\ \A i \in 1..Len(calls) : calls[i] \in Sites
    /\ \A i \in 1..Len(all_results) : all_results[i] \in Hits
    /\ confidence_level \in ConfidenceLevels \cup {<<>>}

\* How far a call is from its return: the statements left, counted in
\* external calls, with the two loops (over the queries, over the pairs of a
\* result list) counted by what is left of them.
StepsLeft ==
    LET rank == CASE pc = "prepare" -> 6 [] pc = "probe" -> 5 [] pc = "expand" -> 4
                  [] pc \in {"search", "hits"} -> 3 [] pc = "confidence" -> 2
                  [] pc = "answer" -> 1 [] OTHER -> 0
        queries_left == Len(queries) - qi
        pairs_left == Min(SEARCH_K(variant), MaxHits) - nhits
        in_loop == CASE pc = "search" -> queries_left * 6 + 5
                     [] pc = "hits" -> queries_left * 6 + pairs_left
                     [] OTHER -> 0
    IN  rank * 100 + in_loop

\* C1: query_rag_system is total.  Whatever the Document Store and the
\* Language Model do at each call site (return a value or raise), the call
\* returns: until it has returned it is at one of its statements, with a
\* positive number of steps left, and every step lowers that number; and what
\* it returns (by a return statement or through the except clause) is a
\* non-empty string.
C1_Total ==
    /\ [](pc = "done" => outcome \in Outcomes /\ Len(response) > 0)
    /\ [](pc # "done" =>
             /\ pc \in {"prepare", "probe", "expand", "search", "hits", "confidence", "answer"}
             /\ StepsLeft > 0
             /\ pc = "hits" => nhits <= MaxHits)
    /\ [][StepsLeft' < StepsLeft /\ StepsLeft' >= 0]_vars

\* C1's case: the answer-generation call raised and the call still returned
C1_Witness == pc = "done" /\ outcome = "error" /\ LastCall = "answer"

\* C2: when the probe returns and none of its pairs scores above 0.65 (an
\* empty list and a top score of exactly 0.65 included), the function has
\* returned the no-match reply, the only calls made are the construction of
\* the store and the probe (no Language Model call, no further search), and
\* the reply names the organizer in a group and the public groups in a
\* private chat.
C2_ProbeShortCircuit ==
    (/\ LastCall = "probe"
     /\ outcome # "error"
     /\ \A i \in 1..Len(initial_results) : initial_results[i].score <= 65)
    => /\ pc = "done"
       /\ outcome = "no_match"
       /\ calls = <<"prepare_db", "probe">>
       /\ Mentions(response, "NO_RELEVANT_INFO")
       /\ is_private => /\ Mentions(response, PUBLIC_GROUPS)
                        /\ ~Mentions(response, ORGANIZER_USERNAME)
       /\ ~is_private => Mentions(response, ORGANIZER_USERNAME)

\* C2's case: the best pair of the probe scores exactly 0.65, in a private chat
C2_Witness ==
    /\ outcome = "no_match"
    /\ is_private
    /\ \E i \in 1..Len(initial_results) : initial_results[i].score = 65

\* a source line of the reply and the retained chunks it can come from
CitedFrom(list, d) ==
    \E i \in 1..Len(list) :
        /\ MetadataSource(list[i].doc) = MetadataSource(d)
        /\ list[i].score > 50

\* C3: every chunk of a context formatted into a Language Model prompt has a
\* score above 0.5, and every source line of a returned answer is the line of
\* a retained chunk whose score is above 0.5; a chunk that scored exactly 0.5
\* is in neither.
C3_OnlyGoodChunksSurface ==
    /\ \A context \in llm_contexts : \A i \in 1..Len(context) : context[i].score > 50
    /\ outcome = "answer" =>
           \A d \in Docs :
               (MetadataSource(d) # <<>> /\ Contains(response, SourceLine(MetadataSource(d))))
                   => CitedFrom(results, d)

\* C3's case: a chunk that scored exactly 0.5 was merged and an answer with
\* sources was returned
C3_Witness ==
    /\ outcome = "answer"
    /\ Mentions(response, BULLET)
    /\ \E i \in 1..Len(all_results) : all_results[i].score = 50

\* the length of the context of the retained chunks: the lengths of their
\* contents and 7 characters between two of them
JoinedLength(list) ==
    IF list = <<>> THEN 0 ELSE SumLen(list) + 7 * (Len(list) - 1)

\* C4: when the context of the retained chunks is shorter than the minimum
\* (100 characters in the Telegram bot, 200 in the Discord bot), whatever the
\* chunks' scores, the function has returned the limited-information
\* escalation, and neither the confidence call nor the answer call was made.
C4_ShortContextEscalates ==
    (/\ results # <<>>
     /\ JoinedLength(results) < (IF variant = "telegram" THEN 100 ELSE 200))
    => /\ pc = "done"
       /\ outcome = "short_context"
       /\ response = ShortContextReply(variant, is_private)
       /\ ~Made("confidence")
       /\ ~Made("answer")

\* C4's case: one retained chunk scoring 0.95 whose content is 40 characters
C4_Witness ==
    /\ outcome = "short_context"
    /\ results = <<[doc |-> 1, score |-> 95]>>

\* C6: when the confidence gate yields LOW, the function has returned the
\* low-confidence escalation and the answer-generation call was not made.
C6_LowSkipsAnswer ==
    confidence_level = LOW
    => /\ pc = "done"
       /\ outcome = "low_confidence"
       /\ response = LowConfidenceReply(variant, is_private, query_text)
       /\ Mentions(response, "NOT_CONFIDENT")
       /\ ~Made("answer")

\* C6's case: the confidence call was made and the gate said LOW
C6_Witness == confidence_level = LOW /\ LastCall = "confidence" /\ pc = "done"


(***************************************************************************)
(* Properties of evaluate_confidence (SpecConfidence)                      *)
(***************************************************************************)

\* c is the letter C, in either case
SameLetter(c, C) == c = C \/ \E n \in 1..Len(Upper) : Lower[n] = c /\ Upper[n] = C

\* text is word, in any case, with nothing but whitespace before and after
IsPaddedWord(text, word) ==
    \E i \in 0..Len(text) :
        /\ i + Len(word) <= Len(text)
        /\ \A k \in 1..i : text[k] \in Whitespace
        /\ \A k \in 1..Len(word) : SameLetter(text[i + k], word[k])
        /\ \A k \in (i + Len(word) + 1)..Len(text) : text[k] \in Whitespace

ThreeLevels == {<<"H", "I", "G", "H">>, <<"M", "E", "D", "I", "U", "M">>, <<"L", "O", "W">>}

\* C5: evaluate_confidence returns one of HIGH, MEDIUM, LOW whatever the
\* Language Model call does; it returns LOW when the call raises and when the
\* output, trimmed and upper-cased, is not one of the three words; and it
\* returns the word when it is.
C5_ConfidenceIsOneOfThree ==
    pc = "evaluated"
    => /\ confidence_level \in ThreeLevels
       /\ llm_reply.raised => confidence_level = <<"L", "O", "W">>
       /\ ~llm_reply.raised =>
             /\ \A level \in ThreeLevels :
                    IsPaddedWord(llm_reply.content, level) => confidence_level = level
             /\ (\A level \in ThreeLevels : ~IsPaddedWord(llm_reply.content, level))
                    => confidence_level = <<"L", "O", "W">>

\* C5's case: the output is "HIGH." on a line of its own, and LOW is returned
C5_Witness ==
    /\ pc = "evaluated"
    /\ ~llm_reply.raised
    /\ llm_reply.content = <<"\n", "H", "I", "G", "H", ".", "\n">>
    /\ confidence_level = LOW

(***************************************************************************)
(* Properties of the merge (SpecStore)                                     *)
(***************************************************************************)

Retrieved == pc = "retrieved"

StoreHashes == {ContentHash(hit.doc) : hit \in StoreHits}

\* the queries whose result list holds a chunk with this hash
ReturnedUnder(h) ==
    {q \in Range(StoreQueries) :
        \E i \in 1..Len(db[q]) : ContentHash(db[q][i].doc) = h}

\* the same, counting only the pairs that score above 0.4
ReturnedAboveFloorUnder(h) ==
    {q \in Range(StoreQueries) :
        \E i \in 1..Len(db[q]) : ContentHash(db[q][i].doc) = h /\ db[q][i].score > 40}

\* the places of a merged list that hold a chunk with this hash
EntriesOf(list, h) == {i \in 1..Len(list) : ContentHash(list[i].doc) = h}

\* C7 as stated: at most one entry per chunk, and a chunk returned under two
\* or more queries appears exactly once in the merged sequence.
C7_AsStated ==
    Retrieved =>
        \A h \in StoreHashes :
            /\ Cardinality(EntriesOf(all_results, h)) <= 1
            /\ Cardinality(ReturnedUnder(h)) >= 2
                   => Cardinality(EntriesOf(all_results, h)) = 1

\* C7: the merged sequence holds at most one entry per chunk (chunks told
\* apart by the first 100 characters of their content); a chunk returned
\* under any number of queries appears exactly once when one of its
\* occurrences scores above 0.4, and not at all otherwise.
C7_AtMostOncePerChunk ==
    Retrieved =>
        \A h \in StoreHashes :
            /\ Cardinality(EntriesOf(all_results, h)) <= 1
            /\ Cardinality(EntriesOf(all_results, h)) = 1
                   <=> ReturnedAboveFloorUnder(h) # {}

\* C7's case: a chunk returned above 0.4 under both queries has one entry
C7_Witness ==
    /\ Retrieved
    /\ \E h \in StoreHashes :
          /\ Cardinality(ReturnedAboveFloorUnder(h)) >= 2
          /\ Cardinality(EntriesOf(all_results, h)) = 1

RECURSIVE Encountered(_, _)
\* every pair the store returned, in the order the loops meet them
Encountered(query_list, store) ==
    IF query_list = <<>> THEN <<>>
    ELSE store[Head(query_list)] \o Encountered(Tail(query_list), store)

\* the place of the first pair with this hash (0: none) ...
FirstOccurrence(list, h) ==
    IF EntriesOf(list, h) = {} THEN 0
    ELSE CHOOSE i \in EntriesOf(list, h) : \A j \in EntriesOf(list, h) : i <= j

\* ... and of the first one that scores above 0.4
FirstAboveFloor(list, h) ==
    LET above == {i \in EntriesOf(list, h) : list[i].score > 40}
    IN  IF above = {} THEN 0 ELSE CHOOSE i \in above : \A j \in above : i <= j

\* the merged entries for this hash, as a set of pairs
MergedFor(h) == {all_results[i] : i \in EntriesOf(all_results, h)}

\* C8 as stated: the entry considered for a chunk is its first occurrence in
\* query order; when that occurrence scores at most 0.4 the chunk is absent
\* from the merged set, whatever a later query returns for it.
C8_AsStated ==
    Retrieved =>
        LET met == Encountered(StoreQueries, db)
        IN  \A h \in StoreHashes :
                LET first == FirstOccurrence(met, h)
                IN  first # 0 =>
                        MergedFor(h) = (IF met[first].score > 40 THEN {met[first]} ELSE {})

\* C8: the merged entry of a chunk is its first occurrence, in query order,
\* among those that score above 0.4, with that occurrence's score; an
\* occurrence at 0.4 or below is skipped without being remembered, so a later
\* occurrence above 0.4 is merged.
C8_FirstAboveFloorKept ==
    Retrieved =>
        LET met == Encountered(StoreQueries, db)
        IN  \A h \in StoreHashes :
                LET first == FirstAboveFloor(met, h)
                IN  MergedFor(h) = (IF first = 0 THEN {} ELSE {met[first]})

\* C8's case: the first occurrence of a chunk scores 0.4, a later one scores
\* more, and the later one is in the merged set
C8_Witness ==
    /\ Retrieved
    /\ LET met == Encountered(StoreQueries, db)
       IN  \E h \in StoreHashes :
               /\ FirstOccurrence(met, h) # 0
               /\ met[FirstOccurrence(met, h)].score <= 40
               /\ FirstAboveFloor(met, h) # 0
               /\ MergedFor(h) = {met[FirstAboveFloor(met, h)]}

\* the (chunk, score) entries of a list, chunks told apart by their hash
EntrySet(list) == {<<ContentHash(list[i].doc), list[i].score>> : i \in 1..Len(list)}

ChunkSet(list) == {ContentHash(list[i].doc) : i \in 1..Len(list)}

ScoresOf(list) == [i \in 1..Len(list) |-> list[i].score]

OneScorePerChunk ==
    \A q1, q2 \in Range(StoreQueries) :
        \A i \in 1..Len(db[q1]) : \A j \in 1..Len(db[q2]) :
            (/\ ContentHash(db[q1][i].doc) = ContentHash(db[q2][j].doc)
             /\ db[q1][i].score > 40
             /\ db[q2][j].score > 40)
            => db[q1][i].score = db[q2][j].score

Ranked ==
    IF variant = "cli" THEN pc = "respond"
    ELSE variant \in Variants /\ pc \notin {"hits", "limit"}

\* by score, highest first, and in the order met where the scores are equal
\* (in SpecRank the chunks are numbered in the order met)
SortedInEncounterOrder(list) ==
    \A i, j \in 1..Len(list) :
        i < j => \/ list[i].score > list[j].score
                 \/ list[i].score = list[j].score /\ list[i].doc < list[j].doc

\* the merged entries the truncation chooses from: those above 0.5 in the
\* bots, all of them in the command line
Filtered ==
    IF variant = "cli" THEN Range(all_results)
    ELSE {hit \in Range(all_results) : hit.score > 50}

\* the retained entries are entries of the filtered set, and none left out
\* scores higher than one retained
HighestOfFiltered ==
    /\ Range(results) \subseteq Filtered
    /\ \A kept \in Range(results) : \A other \in Filtered \ Range(results) :
           other.score <= kept.score

MaximumCount == CASE variant = "telegram" -> 8 [] variant = "discord" -> 4 [] OTHER -> max_docs

\* C9 as stated: the retained sequence is sorted by score, highest first, ties
\* in encounter order; it consists of the highest-scoring entries of the
\* filtered merged set; and it is no longer than the caller's maximum (8, 4,
\* --max-docs; no entry at all for a maximum below one).
C9_AsStated ==
    Ranked =>
        /\ SortedInEncounterOrder(results)
        /\ HighestOfFiltered
        /\ Len(results) <= (IF MaximumCount > 0 THEN MaximumCount ELSE 0)

\* What holds of the ranking: as C9 states, with the length that the slice
\* gives: the maximum or the whole filtered set when that is shorter; and for
\* a negative --max-docs, all of the list but its last -max_docs entries.
C9_RankedAndSliced ==
    Ranked =>
        /\ SortedInEncounterOrder(results)
        /\ SortedInEncounterOrder(all_results)
        /\ HighestOfFiltered
        /\ MaximumCount >= 0 =>
               Len(results) = Min(MaximumCount, Cardinality(Filtered))
        /\ MaximumCount < 0 =>
               Len(results) = (IF Cardinality(Filtered) + MaximumCount > 0
                               THEN Cardinality(Filtered) + MaximumCount ELSE 0)

\* C9's case in the Telegram bot: nine good chunks, eight retained, a later
\* chunk ranked before an earlier one, and two equal scores
C9_Witness ==
    /\ variant = "telegram"
    /\ Ranked
    /\ Cardinality(Filtered) = 9
    /\ Len(results) = 8
    /\ results[1].doc > results[8].doc
    /\ results[1].score = results[2].score

\* C9's failing case: --max-docs -1 and three merged chunks, two retained
C9_NegativeMaxDocs ==
    /\ variant = "cli"
    /\ Ranked
    /\ max_docs = -1
    /\ Len(all_results) = 3
    /\ Len(results) = 2

(***************************************************************************)
(* Properties of the query expansion (SpecExpand)                          *)
(***************************************************************************)

Expanded == pc = "expanded"

NoTwoEqual(list) == \A i, j \in 1..Len(list) : i # j => list[i] # list[j]

\* C11 as stated: the query sequence used for retrieval has at most 4
\* elements, its first element is the original query, the others are at most
\* 3 generated variants, and no two elements are equal.
C11_AsStated ==
    Expanded =>
        /\ Len(queries) <= 4
        /\ queries # <<>> /\ queries[1] = query_text
        /\ Len(queries) - 1 <= 3
        /\ NoTwoEqual(queries)

\* What holds of the query sequence: it is not empty and the original query
\* is in it; the original query is first whenever it is not among the parsed
\* variants; the parsed variants are longer than 3 characters; in the bots
\* at most 3 variants are parsed, so the sequence has at most 4 elements.
C11_OriginalIncluded ==
    Expanded =>
        /\ \E i \in 1..Len(queries) : queries[i] = query_text
        /\ queries[1] # query_text =>
               /\ ~llm_reply.raised
               /\ queries = ParseQueries(llm_reply.content, IF variant = "cli" THEN 0 ELSE 3)
        /\ \A i \in 2..Len(queries) : Len(queries[i]) > 3
        /\ variant # "cli" => Len(queries) <= 4

\* C11's failing case in a bot: the model lists the same variant twice
C11_RepeatedVariant ==
    /\ Expanded
    /\ variant = "telegram"
    /\ queries = << <<"a", "b", "c", "d">>, <<"w", "x", "y", "z">>, <<"w", "x", "y", "z">> >>

\* C12 as stated: when the Language Model call of the query expansion
\* raises, the query sequence is exactly the original query, the pipeline
\* goes on to the retrieval, and the failure does not turn the request into
\* the error reply.
C12_AsStated ==
    (pc # "expand" /\ llm_reply.raised)
    => /\ queries = <<query_text>>
       /\ pc = "expanded"
       /\ outcome # "error"

\* What holds when that call raises: generate_multiple_queries of the command
\* line returns the original query alone; in the two bots the exception
\* reaches the except clause of query_rag_system, which returns the error
\* reply, and no query is retrieved.
C12_DegradesInCommandLineOnly ==
    (pc # "expand" /\ llm_reply.raised)
    => IF variant = "cli"
       THEN queries = <<query_text>> /\ pc = "expanded" /\ outcome = "none"
       ELSE /\ pc = "done"
            /\ outcome = "error"
            /\ response = ErrorReply(variant, is_private, llm_reply.exception)
            /\ queries = <<>>

\* C12's failing case: the call raises in the Telegram bot, the error reply
\* is returned
C12_ExpansionError ==
    /\ variant = "telegram"
    /\ llm_reply.raised
    /\ pc = "done"
    /\ outcome = "error"

(***************************************************************************)
(* Properties of the replies of query_rag_system (Spec)                    *)
(***************************************************************************)

\* the answer-generation call returned: the function went past line 207
Answered == pc = "done" /\ LastCall = "answer" /\ outcome # "error"

\* the nine letters occur in a text, in this order and side by side
HasSentinel(text) ==
    \E i \in 1..Len(text) :
        /\ i + 8 <= Len(text)
        /\ SubSeq(text, i, i + 8) = <<"U", "N", "C", "E", "R", "T", "A", "I", "N">>

\* the fixed texts of the escalation replies, and the quotes around the
\* question in the Discord ones
EscalationTokens ==
    {"NOT_ENOUGH_INFO", "COULD_YOU_HELP", "ORGANIZER_USERNAME", "PUBLIC_GROUPS",
     "GUIDE_LINK", "'", "?"}

\* C13: when the Language Model's output to the answer prompt contains the
\* sentinel UNCERTAIN, the function returns the uncertain escalation: it names
\* the organizer in a group and the public groups in a private chat, and it is
\* made of the fixed text and (Discord) the question only: no generated text,
\* no source line.  An answer is returned only for an output without the
\* sentinel.
C13_UncertainSentinel ==
    Answered =>
        IF HasSentinel(response_text)
        THEN /\ outcome = "uncertain"
             /\ response[1] = "NOT_ENOUGH_INFO"
             /\ is_private => /\ Mentions(response, "PUBLIC_GROUPS")
                              /\ ~Mentions(response, "ORGANIZER_USERNAME")
             /\ ~is_private => Mentions(response, "ORGANIZER_USERNAME")
             /\ \A i \in 1..Len(response) :
                    \/ response[i] \in EscalationTokens
                    \/ variant = "discord" /\ response[i] \in Range(query_text)
             /\ ~Contains(response, response_text)
             /\ ~Mentions(response, "DOCS_HEADER") /\ ~Mentions(response, BULLET)
        ELSE /\ outcome = "answer"
             /\ Mentions(response, "DOCS_HEADER")
             /\ ~Mentions(response, "NOT_ENOUGH_INFO")

\* C13's case: the sentinel inside a sentence, in a private chat
C13_Witness ==
    /\ Answered
    /\ is_private
    /\ response_text = <<"o", "k", " ", "U", "N", "C", "E", "R", "T", "A", "I", "N", ".">>
    /\ outcome = "uncertain"

StartsWithPartial(text) ==
    Len(text) >= 8 /\ SubSeq(text, 1, 8) = <<"P", "A", "R", "T", "I", "A", "L", ":">>

HasBanner == response # <<>> /\ response[1] = "PARTIAL_BANNER"

\* the text of an answer reply: what stands between the banner, if any, and
\* the header of the sources
ShownText ==
    LET header == CHOOSE i \in 1..Len(response) : response[i] = "DOCS_HEADER"
    IN  SubSeq(response, IF HasBanner THEN 2 ELSE 1, header - 1)

\* C14 as stated: whenever the output starts with "PARTIAL:", at either level
\* that reaches the answer generation, the reply begins with the
\* partial-answer banner, followed by the output without its leading prefix
\* (the whitespace around it trimmed, nothing else changed).
C14_AsStated ==
    (Answered /\ StartsWithPartial(response_text))
    => /\ outcome = "answer"
       /\ HasBanner
       /\ ShownText = Strip(DropFirst(response_text, 8))

\* C14: whenever the output starts with "PARTIAL:" and does not contain the
\* sentinel, the reply is an answer whose text is the output with every
\* occurrence of "PARTIAL:" removed, then trimmed of the whitespace at both
\* ends; the partial-answer banner begins the reply when the confidence level
\* is MEDIUM and is absent when it is HIGH.  An output that starts with
\* "PARTIAL:" and contains the sentinel gets the uncertain escalation.
C14_PartialPrefix ==
    (Answered /\ StartsWithPartial(response_text))
    => IF HasSentinel(response_text) THEN outcome = "uncertain" /\ ~HasBanner
       ELSE /\ outcome = "answer"
            /\ HasBanner <=> confidence_level = <<"M", "E", "D", "I", "U", "M">>
            /\ confidence_level \in {<<"H", "I", "G", "H">>, <<"M", "E", "D", "I", "U", "M">>}
            /\ ShownText = Strip(ReplaceAll(response_text, PARTIAL_PREFIX, <<>>))

\* C14's case: the level is HIGH, the output has the prefix twice and ends
\* with a newline; the reply has no banner and neither prefix
C14_Witness ==
    /\ Answered
    /\ confidence_level = HIGH
    /\ response_text = <<"P", "A", "R", "T", "I", "A", "L", ":", " ", "o", "k", " ",
                         "P", "A", "R", "T", "I", "A", "L", ":", "x", "\n">>
    /\ ShownText = <<"o", "k", " ", "x">>

Escalations == {"no_match", "no_good_results", "short_context", "low_confidence", "uncertain"}

\* C15: in the Telegram bot, every escalation reply (no match at the probe, no
\* good results, short context, LOW confidence, UNCERTAIN) and the error
\* reply names the organizer when is_private is false; when is_private is
\* true it never names the organizer and sends the user to the public groups.
C15_EscalationTarget ==
    (variant = "telegram" /\ pc = "done" /\ outcome \in Escalations \cup {"error"})
    => IF is_private
       THEN /\ Mentions(response, "PUBLIC_GROUPS")
            /\ ~Mentions(response, "ORGANIZER_USERNAME")
       ELSE Mentions(response, "ORGANIZER_USERNAME")

\* C15's case: a private chat, LOW confidence
C15_Witness ==
    /\ variant = "telegram"
    /\ is_private
    /\ outcome = "low_confidence"
    /\ Mentions(response, "PUBLIC_GROUPS")

\* the symbols of an exception's message occur, in order and adjacent, in a text
Carries(text, e) ==
    \E i \in 1..Len(text) :
        /\ i + Len(e) - 1 <= Len(text)
        /\ SubSeq(text, i, i + Len(e) - 1) = e

\* C16: when the answer-generation Language Model call raises, the reply is
\* the error apology of the conversation context, it names the context's
\* escalation target, it is the same whichever exception was raised and it
\* carries no exception's message.
C16_AnswerFailure ==
    (pc = "done" /\ outcome = "error" /\ LastCall = "answer")
    => /\ response =
            (IF variant = "telegram" /\ is_private
             THEN <<"ERROR_APOLOGY", "TRY_LATER", "PUBLIC_GROUPS">>
             ELSE <<"ERROR_APOLOGY", "ORGANIZER_USERNAME", "TECH_ISSUE">>)
       /\ \A e \in Exceptions :
            /\ response = ErrorReply(variant, is_private, e)
            /\ ~Carries(response, e)

\* C16's case: the answer call has raised "timed out"
C16_Witness ==
    /\ pc = "done"
    /\ outcome = "error"
    /\ LastCall = "answer"
    /\ error = <<"t", "i", "m", "e", "d", " ", "o", "u", "t">>
    /\ Made("search")

RetrievalFailed ==
    /\ pc \in {"done", "raised"}
    /\ error # <<>>
    /\ LastCall \in {"probe", "search"}

\* C17 as stated: when the probe or a per-query search raises, the request
\* ends in an escalation outcome, not in the error apology, and
\* the exception is not propagated.
C17_AsStated ==
    RetrievalFailed
    => /\ pc = "done"
       /\ outcome \in Escalations
       /\ response # ErrorReply(variant, is_private, error)

\* C17, what the code does: the exception of a Document Store query is caught
\* by the one handler of query_rag_system, and the reply is the error apology.
C17_RetrievalFailureIsError ==
    RetrievalFailed
    => /\ pc = "done"
       /\ outcome = "error"
       /\ response = ErrorReply(variant, is_private, error)

\* C17's case: the search of a query has raised after a good probe
C17_SearchRaised ==
    /\ RetrievalFailed
    /\ LastCall = "search"
    /\ has_high_confidence
    /\ outcome = "error"

(***************************************************************************)
(* Properties of the message handlers (SpecAdapter)                        *)
(***************************************************************************)

\* the pipeline has returned to the handler of update t
Reached(t) ==
    /\ handlers[t].events # <<>>
    /\ handlers[t].events[1].kind = "pipeline"

\* C18: for every request that reaches the pipeline, once log_interaction
\* is over (no webhook URL, a 204, another status or an exception of the
\* POST) the handler sends a reply, and the reply is the pipeline's response.
C18_AuditCannotAffectReply ==
    \A t \in Updates :
        Reached(t) =>
            \/ handlers[t].pc = "posting" /\ handlers[t].sent = <<>>
            \/ /\ handlers[t].sent # <<>>
               /\ handlers[t].sent[1] = handlers[t].returned
               /\ handlers[t].returned
                      \in PipelineReplies(variant, IsPrivate(handlers[t].update),
                                          handlers[t].update.text)

\* C18's case: a POST that raised and a POST answered with another status
\* than 204, each followed by the reply
C18_Witness ==
    /\ handlers[1].printed = "WEBHOOK_ERROR"
    /\ handlers[2].printed = "FAILED_TO_SEND"
    /\ \A t \in Updates :
          handlers[t].pc = "done" /\ handlers[t].sent = <<handlers[t].returned>>

\* the handler of update t is inside query_rag_system
InPipeline(t) == handlers[t].pc = "pipeline"

\* C19 as stated: while the pipeline of one message is waiting on a round
\* trip, the adapter can run the handler of another message that is
\* not over.
C19_AsStated ==
    \A t, u \in Updates :
        (t # u /\ InPipeline(t) /\ handlers[u].pc \notin Over)
        => Schedulable(u)

\* C19, what the code does: query_rag_system is called in the coroutine, so
\* from the call to the return the event loop's thread is held and the
\* handler of no other message takes a step.
C19_PipelineHoldsTheLoop ==
    [][\A t, u \in Updates :
          (t # u /\ InPipeline(t)) => handlers'[u] = handlers[u]]_vars

\* C19's case: in the Discord bot the handler of update 2 awaits its POST
\* while the handler of update 1 is in the pipeline
C19_OtherMessageWaits ==
    /\ variant = "discord"
    /\ InPipeline(1)
    /\ running = 1
    /\ handlers[2].pc = "posting"

(***************************************************************************)
(* Properties of concurrent calls (SpecIsolation)                          *)
(***************************************************************************)

RECURSIVE Alone(_, _, _)
\* the locals of a call that runs alone and hears these answers in turn
Alone(v, local, answers) ==
    IF answers = <<>> THEN local
    ELSE Alone(v, StepOfCall(v, local, Head(answers)), Tail(answers))

\* C20: under every interleaving of the concurrent calls, the locals of each
\* call (its query list, merged list, dedup set, results) and what it returns
\* are those of the call run alone with the same answers of the Document
\* Store and the Language Model.
C20_Isolation ==
    \A i \in Calls :
        invocations[i] =
            Alone(variant,
                  NewCall(invocations[i].query_text, invocations[i].is_private),
                  heard[i])

\* C20's case: both calls are past their searches at the same time; the first
\* has seen the prefix of chunk 2, and the second keeps chunk 3, which has the
\* same prefix
C20_Witness ==
    /\ invocations[1].pc = "confidence"
    /\ 2 \in invocations[1].seen_content
    /\ invocations[2].pc = "answer"
    /\ invocations[2].results = <<[doc |-> 3, score |-> 95]>>

(***************************************************************************)
(* Properties of the citations (SpecCite)                                  *)
(***************************************************************************)

Cited == pc = "cited"

\* the places of the results that have a source
Sourced == {i \in 1..Len(cited_results) : cited_results[i].source # <<>>}

EndsWith(s, p) == Len(s) >= Len(p) /\ SubSeq(s, Len(s) - Len(p) + 1, Len(s)) = p

\* the path with its leading "data/" removed, and its trailing ".mdx" or ".md"
LeadingAndTrailingRemoved(path) ==
    LET rest == IF StartsWith(path, <<"d", "a", "t", "a", "/">>) THEN DropFirst(path, 5) ELSE path
    IN  IF EndsWith(rest, <<".", "m", "d", "x">>) THEN SubSeq(rest, 1, Len(rest) - 4)
        ELSE IF EndsWith(rest, <<".", "m", "d">>) THEN SubSeq(rest, 1, Len(rest) - 3)
        ELSE rest

\* the number of places of s where p occurs
Occurrences(s, p) ==
    Cardinality({i \in 1..Len(s) : i + Len(p) - 1 <= Len(s) /\ SubSeq(s, i, i + Len(p) - 1) = p})

\* C21 as stated: the citation URL is the base URL followed by the path with
\* only its leading "data/" and only its trailing ".md" or ".mdx" removed,
\* and equal paths have equal URLs.
C21_AsStated ==
    Cited =>
        /\ \A i \in Sourced :
              full_urls[i] = <<BASE_URL>> \o LeadingAndTrailingRemoved(cited_results[i].source)
        /\ \A i, j \in Sourced :
              cited_results[i].source = cited_results[j].source => full_urls[i] = full_urls[j]

\* C21, what the code does: every "data/" of the path is removed, wherever it
\* is, so the URL is the stated one exactly when "data/" occurs once in the
\* path, and is shorter by 5 characters for each further occurrence; equal
\* paths have equal URLs.
C21_EveryOccurrenceRemoved ==
    Cited =>
        /\ \A i \in Sourced :
              LET path == cited_results[i].source
                  stated == <<BASE_URL>> \o LeadingAndTrailingRemoved(path)
              IN  /\ full_urls[i] = stated <=> Occurrences(path, <<"d", "a", "t", "a", "/">>) = 1
                  /\ Len(full_urls[i]) = Len(stated) - 5 * (Occurrences(path, <<"d", "a", "t", "a", "/">>) - 1)
        /\ \A i, j \in Sourced :
              cited_results[i].source = cited_results[j].source => full_urls[i] = full_urls[j]

\* C21's case: a file in a directory whose name ends in "data"
C21_InnerDataDirectory ==
    /\ Cited
    /\ Len(cited_results) = 1
    /\ cited_results[1].source = <<"d", "a", "t", "a", "/", "b", "i", "g", "-", "d", "a", "t", "a", "/", "i", "n", "t", "r", "o", ".", "m", "d">>
    /\ full_urls[1] = <<BASE_URL>> \o <<"b", "i", "g", "-", "i", "n", "t", "r", "o">>

\* the title and the URL read back from a rendered citation "[title](url)"
TitleAndUrl(line) ==
    LET after == AfterFirst(line, "[")
    IN  [title |-> SplitOn(after, "]")[1],
         url |-> SplitOn(DropFirst(AfterFirst(after, "]"), 1), ")")[1]]

\* the citations among the rendered sources ("Unknown source" is none)
IsCitation(line) == InList("[", line)

RECURSIVE MapTitleAndUrl(_)
MapTitleAndUrl(lines) ==
    IF lines = <<>> THEN <<>>
    ELSE <<TitleAndUrl(Head(lines))>> \o MapTitleAndUrl(Tail(lines))

RenderedCitations == MapTitleAndUrl(SelectSeq(unique_sources, IsCitation))

RECURSIVE TitlesAndUrlsOf(_)
\* the title and URL of each result that has a source, in the results' order
TitlesAndUrlsOf(list) ==
    IF list = <<>> THEN <<>>
    ELSE (IF Head(list).source = <<>> THEN <<>>
          ELSE <<[title |-> ReadableTitle(Head(list).source),
                  url |-> FullUrl(Head(list).source)]>>)
             \o TitlesAndUrlsOf(Tail(list))

RECURSIVE TitlesOf(_)
TitlesOf(pairs) ==
    IF pairs = <<>> THEN <<>> ELSE <<Head(pairs).title>> \o TitlesOf(Tail(pairs))

\* the variant's cap on the citations: 8, 3, none in the command lines
CitationCap(v) == IF v \in Variants THEN MAX_SOURCES(v) ELSE Len(cited_results)

\* C22 as stated: the rendered citations are the results' (title, URL) pairs
\* without duplicates, in first-seen order, cut at the variant's cap.
C22_AsStated ==
    Cited =>
        RenderedCitations =
            Take(UniqueInOrder(TitlesAndUrlsOf(cited_results)), CitationCap(variant))

\* C22, what the code does: as stated in the two bots and in query_docs; in
\* multi_query_rag the duplicates are told by the title alone, so a result with
\* the title of an earlier one is not cited whatever its URL.
C22_ByTitleInCommandLine ==
    Cited =>
        IF variant = "cli"
        THEN /\ TitlesOf(RenderedCitations) =
                    UniqueInOrder(TitlesOf(TitlesAndUrlsOf(cited_results)))
             /\ \A i \in 1..Len(RenderedCitations) :
                    InList(RenderedCitations[i], TitlesAndUrlsOf(cited_results))
        ELSE /\ RenderedCitations =
                    Take(UniqueInOrder(TitlesAndUrlsOf(cited_results)), CitationCap(variant))
             /\ Len(RenderedCitations) <= CitationCap(variant)

\* C22's case: multi_query_rag with two files named intro in two directories
C22_SameTitleOtherUrl ==
    /\ Cited
    /\ variant = "cli"
    /\ Len(cited_results) = 2
    /\ cited_results[1].source = <<"d", "a", "t", "a", "/", "d", "o", "c", "s", "/", "a", "/", "i", "n", "t", "r", "o", ".", "m", "d">>
    /\ cited_results[2].source = <<"d", "a", "t", "a", "/", "d", "o", "c", "s", "/", "b", "/", "i", "n", "t", "r", "o", ".", "m", "d">>
    /\ Len(unique_sources) = 1

(***************************************************************************)
(* Properties of the command lines' context (SpecRank)                     *)
(***************************************************************************)

\* a command line has its context: limited_results in multi_query_rag.main,
\* results in query_docs.main
HasContext == variant \in {"cli", "query_docs"} /\ pc = "respond"

\* C23 as stated: in the command lines no chunk that scores at most 0.5 is
\* part of the context sent to the Language Model or of the printed sources.
C23_AsStated ==
    HasContext => \A i \in 1..Len(results) : results[i].score > GOOD_FLOOR

\* C23, what the code does: multi_query_rag.main takes its context from the
\* whole merged list, whose only floor is the merge floor of 0.4;
\* query_docs.main takes every result of its search once the first scores at
\* least 0.5.
C23_NoGoodFloorInCommandLines ==
    HasContext =>
        IF variant = "cli"
        THEN /\ results = Slice(all_results, max_docs)
             /\ \A i \in 1..Len(results) : results[i].score > MERGE_FLOOR
        ELSE /\ results # <<>>
             /\ results[1].score >= GOOD_FLOOR
             /\ \A i \in 1..Len(results) : results[i].score <= results[1].score

\* C23's case: query_docs.main with a chunk that scores 0.4 behind a good one
C23_LowChunkInContext ==
    /\ HasContext
    /\ variant = "query_docs"
    /\ Len(results) = 2
    /\ results[1].score = 95
    /\ results[2].score = 40

\* the handler of update t is over, or waits for an answer of the network
Handled(t) == handlers[t].pc # "received"

\* the events of a kind among those of a handler
EventsOf(t, kind) == SelectSeq(handlers[t].events, LAMBDA e : e.kind = kind)

\* nothing was done for update t: no pipeline, no audit, no message
Silent(t) == handlers[t].events = <<>> /\ handlers[t].sent = <<>>

\* C24 as stated: in a non-private Telegram chat a message is replied to (and
\* the pipeline and the audit are run for it) only if its text has the
\* mention of the bot or it is a reply to a message of this bot; any other
\* group message causes no reply, no pipeline call and no audit.  In a
\* private chat every text message is answered.
C24_AsStated ==
    variant \in TelegramVariants =>
        \A t \in Updates :
            LET update == handlers[t].update
            IN  /\ (update.chat_type # "private" /\ ~update.mention
                        /\ update.reply_to # "this_bot")
                   => Silent(t)
                /\ (update.chat_type = "private" /\ Handled(t))
                   => handlers[t].pc # "ignored"

\* C24, what the code does: the gate is passed by the mention and by a reply
\* to a message of any bot (from_user.is_bot), this one or another; any other
\* group message causes nothing.  In a private chat no message is ignored.
C24_AnyBotReplyPasses ==
    variant \in TelegramVariants =>
        \A t \in Updates :
            LET update == handlers[t].update
            IN  /\ (update.chat_type # "private" /\ ~update.mention
                        /\ update.reply_to = "no_bot")
                   => Silent(t)
                /\ (Handled(t) /\ (update.chat_type = "private" \/ update.mention
                                      \/ update.reply_to # "no_bot"))
                   => handlers[t].pc # "ignored"

\* C24's case: a group message without mention, a reply to another bot,
\* answered by the pipeline
C24_ReplyToOtherBot ==
    /\ variant = "telegram"
    /\ handlers[1].update.chat_type = "group"
    /\ ~handlers[1].update.mention
    /\ handlers[1].update.reply_to = "other_bot"
    /\ handlers[1].pc = "done"
    /\ Len(EventsOf(1, "pipeline")) = 1
    /\ Len(EventsOf(1, "reply")) = 1

\* C25 as stated: for a message with no guild the Discord bot never calls the
\* pipeline, emits no audit and sends no message; in a server it responds
\* only to messages that mention the bot.
C25_AsStated ==
    variant = "discord" =>
        \A t \in Updates :
            LET message == handlers[t].update
            IN  /\ ~message.guild => Silent(t)
                /\ (message.guild /\ ~Silent(t)) => message.bot_mentioned

\* C25, what the code does: a direct message never reaches the pipeline or
\* the audit, but it is answered: with the servers-only notice, or with the
\* user's id when it is the command !myid.  In a server the pipeline
\* runs only for a message that mentions the bot, and !myid is answered
\* without mention.
C25_DirectMessageGetsNotice ==
    variant = "discord" =>
        \A t \in Updates :
            LET message == handlers[t].update
            IN  /\ ~message.guild =>
                      /\ EventsOf(t, "pipeline") = <<>>
                      /\ EventsOf(t, "audit") = <<>>
                      /\ handlers[t].sent \in {<<>>, << <<"SERVERS_ONLY">> >>, << <<"YOUR_ID">> >>}
                      /\ (Handled(t) /\ ~message.author_bot /\ message.command = "")
                         => handlers[t].sent = << <<"SERVERS_ONLY">> >>
                /\ (message.guild /\ EventsOf(t, "pipeline") # <<>>) => message.bot_mentioned
                /\ (message.guild /\ ~Silent(t))
                   => message.bot_mentioned \/ message.command = "myid"

\* C25's case: a user's direct message, answered with the notice
C25_NoticeSent ==
    /\ variant = "discord"
    /\ ~handlers[1].update.guild
    /\ ~handlers[1].update.author_bot
    /\ handlers[1].update.command = ""
    /\ handlers[1].pc = "dm_notice"
    /\ handlers[1].sent = << <<"SERVERS_ONLY">> >>

(***************************************************************************)
(* Properties of the parse of the expansion output (SpecExpand)            *)
(***************************************************************************)

\* a list line without its enumeration marker: the leading number and its
\* dot, or the leading bullet or dash
MarkerRemoved(l) ==
    IF l[1] \in Digits
    THEN LET rest == LStripSet(l, Digits)
         IN  IF rest # <<>> /\ rest[1] = "." THEN Tail(rest) ELSE rest
    ELSE Tail(l)

RECURSIVE StatedQueries(_)
\* the parse as the claim states it, line by line
StatedQueries(lines) ==
    IF lines = <<>> THEN <<>>
    ELSE LET l == Strip(Head(lines))
             query == IF IsListLine(Head(lines)) THEN Strip(MarkerRemoved(l)) ELSE <<>>
         IN  (IF Len(query) >= 4 THEN <<query>> ELSE <<>>) \o StatedQueries(Tail(lines))

\* the expansion call has returned and its output was parsed
Parsed == Expanded /\ ~llm_reply.raised

\* the lines of the output
OutputLines == SplitOn(Strip(llm_reply.content), "\n")

\* the number of parsed queries kept: 3 in the bots, all in the command line
ParseCap(parsed) == IF variant = "cli" THEN Len(parsed) ELSE MAX_GENERATED_QUERIES

\* C26 as stated: the parsed queries are the list lines of the output (first
\* non-blank character a digit, a bullet or a dash), each with just its
\* leading marker removed and the rest unchanged, those shorter than 4
\* characters discarded; other lines contribute nothing.
C26_AsStated ==
    Parsed =>
        LET stated == StatedQueries(OutputLines)
        IN  queries = WithOriginal(Take(stated, ParseCap(stated)), query_text)

\* C26, what the code does: a parsed query is what follows the first dot of a
\* list line, wherever that dot is (the whole line when it has none), with
\* leading bullets and dashes removed and the ends trimmed; it is kept when
\* it has 4 characters or more; other lines contribute nothing.
C26_CutAtFirstDot ==
    Parsed =>
        \A i \in 1..Len(queries) :
            \/ queries[i] = query_text
            \/ /\ Len(queries[i]) >= 4
               /\ \E k \in 1..Len(OutputLines) :
                     LET l == Strip(OutputLines[k])
                     IN  /\ IsListLine(OutputLines[k])
                         /\ queries[i] =
                                Strip(LStripSet(Strip(AfterFirst(l, ".")), {BULLET, "-"}))

\* C26's case: the dash line "- ab.wxyz" is parsed as "wxyz"
C26_TextBeforeDotLost ==
    /\ Parsed
    /\ llm_reply.content = <<"-", " ", "a", "b", ".", "w", "x", "y", "z">>
    /\ queries = <<query_text, <<"w", "x", "y", "z">> >>

(***************************************************************************)
(* Properties of the events of one message (SpecAdapter)                   *)
(***************************************************************************)

\* the message of handler t passes the filters of its adapter and is not
\* answered with the greeting
PassesFilters(t) ==
    LET update == handlers[t].update
    IN  /\ update.text # <<>>
        /\ CASE variant = "telegram" -> update.chat_type = "private" \/ BotMentioned(update)
             [] variant = "discord" -> /\ ~update.author_bot
                                       /\ update.command = ""
                                       /\ update.guild
                                       /\ update.bot_mentioned
             [] OTHER -> FALSE

\* the handler of t has ended, by a return or by an exception
Ended(t) == handlers[t].pc \in Over

\* the kinds of the events of t, in their order
RECURSIVE KindsOf(_)
KindsOf(events) ==
    IF events = <<>> THEN <<>> ELSE <<Head(events).kind>> \o KindsOf(Tail(events))

\* C27 as stated: a message that passes the filters causes exactly one
\* pipeline invocation, then exactly one audit emission carrying the
\* pipeline's response, then at most one reply delivered; a message filtered
\* out or greeted causes no pipeline invocation and no audit emission.
C27_AsStated ==
    \A t \in Updates :
        Ended(t) =>
            IF PassesFilters(t)
            THEN /\ KindsOf(handlers[t].events) \in
                        {<<"pipeline", "audit">>, <<"pipeline", "audit", "reply">>}
                 /\ handlers[t].events[2].text = handlers[t].events[1].text
            ELSE EventsOf(t, "pipeline") = <<>> /\ EventsOf(t, "audit") = <<>>

\* C27, amended: a message that passes the filters causes at most one
\* pipeline invocation, exactly one unless the typing indicator raised; when
\* WEBHOOK_URL is set the invocation is followed by exactly one audit
\* emission carrying the first FIELD_LIMIT characters of the pipeline's
\* response, and when it is not set by none; then at most one reply is
\* delivered.  A message filtered out or greeted causes no pipeline
\* invocation and no audit emission.
C27_OneInvocationAuditIfConfigured ==
    \A t \in Updates :
        LET events == handlers[t].events
            kinds == KindsOf(events)
            audited == IF WEBHOOK_URL = <<>> THEN <<>> ELSE <<"audit">>
            whole == <<"pipeline">> \o audited \o <<"reply">>
        IN  IF PassesFilters(t)
            THEN /\ \E n \in 0..Len(whole) : kinds = Take(whole, n)
                 /\ handlers[t].pc \in {"posting", "sending", "done"} =>
                        /\ Len(kinds) >= Len(whole) - 1
                        /\ events[1].text = handlers[t].response
                        /\ WEBHOOK_URL # <<>> =>
                               events[2].text = Take(handlers[t].response, FIELD_LIMIT)
                 /\ handlers[t].pc = "done" => kinds = whole
                 /\ (Ended(t) /\ kinds = <<>>) => handlers[t].pc = "failed"
            ELSE EventsOf(t, "pipeline") = <<>> /\ EventsOf(t, "audit") = <<>>

\* C27's case: one message was answered after one pipeline invocation and
\* one audit emission, the other was filtered out or greeted
C27_InvokedAuditedAnswered ==
    \E t, u \in Updates :
        /\ PassesFilters(t)
        /\ handlers[t].pc = "done"
        /\ KindsOf(handlers[t].events) = <<"pipeline", "audit", "reply">>
        /\ ~PassesFilters(u)
        /\ Ended(u)

(***************************************************************************)
(* Properties of the order and number of the external calls (Spec)         *)
(***************************************************************************)

\* the stage of a call site in the data flow
Stage(site) ==
    CASE site = "prepare_db" -> 0
      [] site = "probe" -> 1
      [] site = "expand" -> 2
      [] site = "search" -> 3
      [] site = "confidence" -> 4
      [] site = "answer" -> 5

\* the most per-query searches of one request: the original query and the
\* generated ones
MaxSearches == MAX_GENERATED_QUERIES + 1

\* C28: within one request the probe is made before any Language Model
\* call; the Language Model calls are made in the order expansion,
\* confidence, answer, each at most once, so at most 3; every per-query
\* search is made after the expansion and before the confidence call; and at
\* most 1 probe and 4 per-query searches are made.
C28_StageOrderAndBudget ==
    /\ \A i, j \in 1..Len(calls) :
           i < j => \/ Stage(calls[i]) < Stage(calls[j])
                    \/ calls[i] = "search" /\ calls[j] = "search"
    /\ \A i \in 1..Len(calls) :
           /\ calls[i] \in LanguageModelSites => \E h \in 1..(i - 1) : calls[h] = "probe"
           /\ calls[i] = "search" => \E h \in 1..(i - 1) : calls[h] = "expand"
           /\ calls[i] = "confidence" => \E h \in 1..(i - 1) : calls[h] = "search"
           /\ calls[i] = "answer" => \E h \in 1..(i - 1) : calls[h] = "confidence"
    /\ \A site \in LanguageModelSites \cup {"probe"} : CountIn(calls, site) <= 1
    /\ CountIn(calls, "search") <= MaxSearches

\* C28's case: a request that made every call it can make: the probe, the
\* expansion, four searches, the confidence call and the answer call
C28_EveryCallMade ==
    /\ pc = "done"
    /\ calls = <<"prepare_db", "probe", "expand", "search", "search", "search", "search",
                 "confidence", "answer">>

(***************************************************************************)
(* Properties of the pipeline on a fixed Document Store (SpecProbe)        *)
(***************************************************************************)

\* the searches and the filter are over
Searched == pc = "context" \/ outcome = "no_good_results"

\* C29 as stated: on a deterministic store that answers in descending order
\* of score, the top k a prefix of the top k' for k < k', whenever the probe
\* passed, the filtered result set after the expansion is not empty and the
\* "couldn't find good matches" escalation is not returned, whatever the
\* expansion output.
C29_AsStated ==
    (Searched /\ has_high_confidence) =>
        /\ GoodResults(all_results) # <<>>
        /\ outcome # "no_good_results"

\* C29, what the code guarantees: when the probe passed and the original
\* query is the first one searched, the filtered result set is not empty;
\* when the parse yields the original query after another query, the other
\* query is searched first and the escalation can be returned.
C29_NonEmptyWhenOriginalFirst ==
    (Searched /\ has_high_confidence /\ queries[1] = query_text) =>
        /\ GoodResults(all_results) # <<>>
        /\ outcome # "no_good_results"
        /\ all_results[1] = initial_results[1]

\* C29's case: the probe passed, the expansion output listed the original
\* query second, the first query found the probe's best chunk at 0.5, and
\* the escalation was returned
C29_EscalatedAfterPassingProbe ==
    /\ has_high_confidence
    /\ outcome = "no_good_results"
    /\ queries[2] = query_text
    /\ initial_results[1].score = 95
    /\ all_results # <<>>
    /\ all_results[1] = [doc |-> initial_results[1].doc, score |-> 50]

(***************************************************************************)
(* Properties of the original query in the query list (SpecExpand)         *)
(***************************************************************************)

\* C30: whatever the expansion output (empty, without a list line, or
\* repeating the original query), the query list used for retrieval contains
\* the original query and so is not empty; generate_multiple_queries of the
\* command line never returns an empty list, whether the Language Model call
\* returns or raises, so main's "Failed to generate queries" branch is never
\* taken.
C30_OriginalAlwaysSearched ==
    /\ Expanded => /\ Len(queries) >= 1
                   /\ InList(query_text, queries)
    /\ pc # "failed_to_generate"
    /\ (variant = "cli" /\ pc # "expand") => Expanded

\* C30's case: the expansion output is empty in the command line, and the
\* query list is the original query alone
C30_EmptyOutput ==
    /\ variant = "cli"
    /\ Expanded
    /\ ~llm_reply.raised
    /\ llm_reply.content = <<>>
    /\ queries = <<query_text>>


====
